---- MODULE Spec2Model ----
(***************************************************************************)
(* The streaming proxy of multi_tool_agent/streaming_agent/app/main.py    *)
(* (deep_tAIpei_app/app/main.py is the same code for the parts modelled). *)
(*                                                                         *)
(* State: the two module-level dictionaries SSE_MESSAGES and              *)
(* USER_LOCATIONS, the uuid source, every event_generator instance that   *)
(* sse_connect has created (with its upstream input so far, the frames it *)
(* has yielded to the client and its cleanup_request task), and the last  *)
(* HTTP response given to a client.                                       *)
(*                                                                         *)
(* Encodings.  Text is a sequence of tokens, each a record: Ch(c) is the  *)
(* character c, Mem(d, fmt) is the member list of a JSON object whose     *)
(* decoded value is d, written with separators fmt.  A Python dict is a   *)
(* function whose domain is its key set; d.get(k) probes the domain.      *)
(* JSON numbers are Num(n), non-numeric scalars Str(s).  Python's None as *)
(* the value of an absent "id" is the reserved string None, which no      *)
(* upstream identifier equals.                                             *)
(*                                                                         *)
(* Beside the proxy: the retry callbacks of the place recommendation      *)
(* agent (deep_tAIpei/sub_agents/place_recommendation_agent/agent.py),    *)
(* with the module-level dictionary STORED_REQUESTS and one model         *)
(* invocation per session, and the location file that the store_location  *)
(* of deep_tAIpei_app/app/main.py writes (LOCATION_FILE).                  *)
(***************************************************************************)
EXTENDS Integers, Sequences, FiniteSets, TLC

VARIABLES SSE_MESSAGES, USER_LOCATIONS, next_uuid, streams, http,
          STORED_REQUESTS, invocations, LOCATION_FILE

vars == <<SSE_MESSAGES, USER_LOCATIONS, next_uuid, streams, http,
          STORED_REQUESTS, invocations, LOCATION_FILE>>

\* ---------------------------------------------------------------- bounds
MaxRequests == 1
MaxStreams == 2
MaxChunks == 1
MaxSessions == 2

\* ------------------------------------------------------------ JSON values
None == "<None>"
Num(n) == [num |-> n]
Str(s) == [str |-> s]
JsonNull == [null |-> TRUE]

Has(d, k) == k \in DOMAIN d
Get(d, k) == IF k \in DOMAIN d THEN d[k] ELSE None

\* ------------------------------------------------------------------ text
Ch(c) == [ch |-> c]
Mem(d, fmt) == [json |-> d, fmt |-> fmt]
NL == Ch("\n")
SP == Ch(" ")
Terminator == <<NL, NL>>
DataPrefix == <<Ch("d"), Ch("a"), Ch("t"), Ch("a"), Ch(":"), SP>>

IsSpace(t) == t \in {NL, SP}

\* str.strip(): drop the leading and the trailing whitespace
RECURSIVE LStrip(_)
LStrip(t) == IF t # <<>> /\ IsSpace(Head(t)) THEN LStrip(Tail(t)) ELSE t

RECURSIVE RStrip(_)
RStrip(t) ==
    IF t # <<>> /\ IsSpace(t[Len(t)]) THEN RStrip(SubSeq(t, 1, Len(t) - 1)) ELSE t

Strip(t) == RStrip(LStrip(t))

StartsWith(t, p) == Len(t) >= Len(p) /\ SubSeq(t, 1, Len(p)) = p

\* json.dumps(d) of a dict: default separators
Dumps(d) == <<Ch("{"), Mem(d, "spaced"), Ch("}")>>

\* json.loads(t): whitespace around the document is allowed; an object decodes
\* to a dict, "[]" to a list; anything else (a truncated document, a document
\* followed by more text, plain text) raises JSONDecodeError.
JsonList == [list |-> <<>>]
DecodeError == [decode_error |-> TRUE]

Loads(t) ==
    LET s == Strip(t) IN
    IF Len(s) = 3 /\ s[1] = Ch("{") /\ Has(s[2], "json") /\ s[3] = Ch("}")
    THEN [ok |-> TRUE, value |-> s[2].json, is_dict |-> TRUE]
    ELSE IF s = <<Ch("["), Ch("]")>>
    THEN [ok |-> TRUE, value |-> JsonList, is_dict |-> FALSE]
    ELSE [ok |-> FALSE, value |-> DecodeError, is_dict |-> FALSE]

\* ------------------------------------------------------- response rewriter
\* dict truthiness of USER_LOCATIONS["browser"]: a non-empty dict
BrowserOnRecord(locs) == Has(locs, "browser") /\ DOMAIN locs["browser"] # {}

\* main.py 283-291; browser_loc["lat"] raises KeyError when the key is absent
NewResponseRaises(browser_loc) == ~Has(browser_loc, "lat") \/ ~Has(browser_loc, "lng")

\* lat and lng taken from each other's key
NewResponse_swapped(browser_loc) ==
    [status |-> "success",
     coordinates |-> [lat |-> browser_loc["lng"], lng |-> browser_loc["lat"]],
     accuracy |-> IF Has(browser_loc, "accuracy") THEN browser_loc["accuracy"] ELSE Num(0),
     source |-> "browser"]

NewResponse(browser_loc) ==
    [status |-> "success",
     coordinates |-> [lat |-> browser_loc["lat"], lng |-> browser_loc["lng"]],
     accuracy |-> IF Has(browser_loc, "accuracy") THEN browser_loc["accuracy"] ELSE Num(0),
     source |-> "browser"]

\* a JSON value is truthy unless it is null (or an empty container)
Truthy(v) == v # JsonNull /\ DOMAIN v # {}

SetKey(d, k, v) == [x \in DOMAIN d \cup {k} |-> IF x = k THEN v ELSE d[x]]

IsGcpCall(part) ==
    Has(part, "functionCall") /\ Get(part["functionCall"], "name") = "get_current_place"

IsShowPlaceResponse(part) ==
    Has(part, "functionResponse")
    /\ Get(part["functionResponse"], "name") = "show_place_details"

\* a decoded JSON value that is an object: not null, not a scalar
IsDict(v) == v # JsonNull /\ ~Has(v, "num") /\ ~Has(v, "str")

\* main.py 301-312: response.get(...) and location.get('lat') raise
\* AttributeError when response, or a truthy location, is not a dict
AugmentRaises(part) ==
    LET fr == part["functionResponse"]
        response == IF Has(fr, "response") THEN fr["response"] ELSE <<>>
    IN  \/ ~IsDict(response)
        \/ /\ Get(response, "status") = "success"
           /\ Has(response, "location") /\ Truthy(response["location"])
           /\ ~IsDict(response["location"])

\* the location is wrapped each time the part is augmented
AugmentPart_nests(part) ==
    LET fr == part["functionResponse"]
        response == IF Has(fr, "response") THEN fr["response"] ELSE <<>>
    IN  IF Get(response, "status") = "success"
           /\ Has(response, "location") /\ Truthy(response["location"])
        THEN [part EXCEPT !["functionResponse"] =
                 SetKey(fr, "response",
                        SetKey(SetKey(response, "ui_action", "show_map"),
                               "location", [place |-> response["location"]]))]
        ELSE part

\* main.py 302-316: the show_place_details augmentation of one part
AugmentPart(part) ==
    LET fr == part["functionResponse"]
        response == IF Has(fr, "response") THEN fr["response"] ELSE <<>>
    IN  IF Get(response, "status") = "success"
           /\ Has(response, "location") /\ Truthy(response["location"])
        THEN [part EXCEPT !["functionResponse"] =
                 SetKey(fr, "response", SetKey(response, "ui_action", "show_map"))]
        ELSE part

\* the functionResponse object is rebuilt with the new response alone
SubstitutePart_bare(part, browser_loc) ==
    [part EXCEPT !["functionResponse"] = [response |-> NewResponse(browser_loc)]]

\* main.py 283-294: the get_current_place substitution of one part
SubstitutePart(part, browser_loc) ==
    [part EXCEPT !["functionResponse"] =
        SetKey(part["functionResponse"], "response", NewResponse(browser_loc))]

\* ------------------------------------------------- function-call correlator
\* main.py 266-320: one pass over data["content"]["parts"], carrying
\* function_call_detected and current_function_id; c.parts is the list as
\* mutated so far, c.raised the exception raised (None when none was).
Correlator(detected, id) == [function_call_detected |-> detected, current_function_id |-> id]

\* with no location on record the matched response is replaced by a failure
StepPart_fabricates(c, part_index, locs) ==
    LET part == c.parts[part_index] IN
    IF IsGcpCall(part)
    THEN [c EXCEPT !.function_call_detected = TRUE,
                   !.current_function_id = Get(part["functionCall"], "id")]
    ELSE IF c.function_call_detected
            /\ Has(part, "functionResponse")
            /\ Get(part["functionResponse"], "id") = c.current_function_id
    THEN IF BrowserOnRecord(locs)
         THEN IF NewResponseRaises(locs["browser"])
              THEN [c EXCEPT !.raised = "KeyError"]
              ELSE [c EXCEPT !.parts[part_index] = SubstitutePart(part, locs["browser"])]
         ELSE [c EXCEPT !.parts[part_index]["functionResponse"] =
                  SetKey(part["functionResponse"], "response",
                         [status |-> "error", source |-> "browser"])]
    ELSE IF IsShowPlaceResponse(part)
    THEN IF AugmentRaises(part)
         THEN [c EXCEPT !.raised = "AttributeError"]
         ELSE [c EXCEPT !.parts[part_index] = AugmentPart(part)]
    ELSE c

StepPart(c, part_index, locs) ==
    LET part == c.parts[part_index] IN
    IF IsGcpCall(part)
    THEN [c EXCEPT !.function_call_detected = TRUE,
                   !.current_function_id = Get(part["functionCall"], "id")]
    ELSE IF c.function_call_detected
            /\ Has(part, "functionResponse")
            /\ Get(part["functionResponse"], "id") = c.current_function_id
    THEN IF BrowserOnRecord(locs)
         THEN IF NewResponseRaises(locs["browser"])
              THEN [c EXCEPT !.raised = "KeyError"]
              ELSE [c EXCEPT !.parts[part_index] = SubstitutePart(part, locs["browser"])]
         ELSE c
    ELSE IF IsShowPlaceResponse(part)
    THEN IF AugmentRaises(part)
         THEN [c EXCEPT !.raised = "AttributeError"]
         ELSE [c EXCEPT !.parts[part_index] = AugmentPart(part)]
    ELSE c

RECURSIVE ProcessParts(_, _, _)
ProcessParts(c, part_index, locs) ==
    IF part_index > Len(c.parts) \/ c.raised # None
    THEN c
    ELSE ProcessParts(StepPart(c, part_index, locs), part_index + 1, locs)

\* main.py 265: data.get("content") and data["content"].get("parts")
HasParts(data) ==
    Has(data, "content") /\ Has(data["content"], "parts") /\ data["content"]["parts"] # <<>>

\* an armed correlator keeps the identifier of the first call
RewriteData_first_call(data, cor, locs) ==
    IF HasParts(data)
    THEN LET c == ProcessParts(
                    [function_call_detected |-> cor.function_call_detected,
                     current_function_id |-> cor.current_function_id,
                     parts |-> data["content"]["parts"],
                     raised |-> None], 1, locs)
         IN  [data |-> [data EXCEPT !["content"]["parts"] = c.parts],
              cor |-> IF cor.function_call_detected
                      THEN cor
                      ELSE Correlator(c.function_call_detected, c.current_function_id),
              raised |-> c.raised]
    ELSE [data |-> data, cor |-> cor, raised |-> None]

\* main.py 262-324: the rewrite of one decoded payload
RewriteData(data, cor, locs) ==
    IF HasParts(data)
    THEN LET c == ProcessParts(
                    [function_call_detected |-> cor.function_call_detected,
                     current_function_id |-> cor.current_function_id,
                     parts |-> data["content"]["parts"],
                     raised |-> None], 1, locs)
         IN  [data |-> [data EXCEPT !["content"]["parts"] = c.parts],
              cor |-> Correlator(c.function_call_detected, c.current_function_id),
              raised |-> c.raised]
    ELSE [data |-> data, cor |-> cor, raised |-> None]

\* ------------------------------------------- non-streaming list rewrite
\* a decoded response body: a JSON list (a sequence of events) or not
JsonBody(is_list, value) == [is_list |-> is_list, value |-> value]

IsGcpResponse(part) ==
    Has(part, "functionResponse")
    /\ Get(part["functionResponse"], "name") = "get_current_place"

\* main.py 363-410: one part of one event; c.parts is the list as mutated so
\* far, c.raised the exception raised
InterceptPart(c, part_index, locs) ==
    LET part == c.parts[part_index] IN
    IF IsGcpResponse(part)
    THEN IF BrowserOnRecord(locs)
         THEN IF NewResponseRaises(locs["browser"])
              THEN [c EXCEPT !.raised = "KeyError"]
              ELSE [c EXCEPT !.parts[part_index] = SubstitutePart(part, locs["browser"])]
         ELSE c
    ELSE IF IsShowPlaceResponse(part)
    THEN IF AugmentRaises(part)
         THEN [c EXCEPT !.raised = "AttributeError"]
         ELSE [c EXCEPT !.parts[part_index] = AugmentPart(part)]
    ELSE c

RECURSIVE InterceptParts(_, _, _)
InterceptParts(c, part_index, locs) ==
    IF part_index > Len(c.parts) \/ c.raised # None
    THEN c
    ELSE InterceptParts(InterceptPart(c, part_index, locs), part_index + 1, locs)

\* main.py 359-410: the loop over the events of the list
RECURSIVE InterceptEvents(_, _, _)
InterceptEvents(r, event_index, locs) ==
    IF event_index > Len(r.value) \/ r.raised # None
    THEN r
    ELSE LET event == r.value[event_index] IN
         IF ~HasParts(event)
         THEN InterceptEvents(r, event_index + 1, locs)
         ELSE LET c == InterceptParts(
                          [parts |-> event["content"]["parts"], raised |-> None], 1, locs)
              IN  InterceptEvents(
                     [value |-> [r.value EXCEPT ![event_index]["content"]["parts"] = c.parts],
                      raised |-> c.raised],
                     event_index + 1, locs)

\* main.py 354-412; value is what is returned when nothing was raised
intercept_function_calls(response_data, locs) ==
    IF ~response_data.is_list
    THEN [value |-> response_data.value, raised |-> None]
    ELSE InterceptEvents([value |-> response_data.value, raised |-> None], 1, locs)

\* ------------------------------------------------------------ client frames
\* site is the yield statement that produced the frame
Frame(text, site) == [text |-> text, site |-> site]

DataFrame(data) == Frame(DataPrefix \o Dumps(data) \o Terminator, "data")
\* the text of the chunk is left out of the frame
RawFrame_terminator_only(chunk) == Frame(Terminator, "raw")

RawFrame(chunk) == Frame(chunk \o Terminator, "raw")
\* the frame names the failure and leaves the upstream body out
UpstreamErrorFrame_generic(error_content) ==
    Frame(DataPrefix \o <<Ch("{"), Mem([error |-> "upstream"], "spaced"), Ch("}")>>
             \o Terminator,
          "upstream_error")

UpstreamErrorFrame(error_content) ==
    Frame(DataPrefix \o error_content \o Terminator, "upstream_error")
ErrorFrame(e) ==
    Frame(DataPrefix \o <<Ch("{"), Mem([error |-> e], "spaced"), Ch("}")>> \o Terminator,
          "error")

\* main.py 253-330: the body of the async-for loop for one upstream chunk.
\* frames holds what the body yields (nothing for a blank chunk), raised the
\* exception that leaves the loop.
ProcessChunk(chunk, cor, locs) ==
    IF Strip(chunk) = <<>>
    THEN [frames |-> <<>>, cor |-> cor, raised |-> None]
    ELSE IF StartsWith(chunk, DataPrefix)
    THEN LET chunk_data == SubSeq(chunk, Len(DataPrefix) + 1, Len(chunk))
             loaded == Loads(chunk_data)
         IN  IF ~loaded.ok
             THEN [frames |-> <<RawFrame(chunk)>>, cor |-> cor, raised |-> None]
             ELSE IF ~loaded.is_dict
             THEN [frames |-> <<>>, cor |-> cor, raised |-> "AttributeError"]
             ELSE LET r == RewriteData(loaded.value, cor, locs) IN
                  IF r.raised # None
                  THEN [frames |-> <<>>, cor |-> r.cor, raised |-> r.raised]
                  ELSE [frames |-> <<DataFrame(r.data)>>, cor |-> r.cor, raised |-> None]
    ELSE [frames |-> <<RawFrame(chunk)>>, cor |-> cor, raised |-> None]

\* ------------------------------------------------------------------- state
\* One event_generator instance (main.py 241-341).  pc: "created" (returned in
\* the StreamingResponse, not yet run), "streaming" (inside the async-for),
\* "error_yielded" (suspended at the yield of line 339), "closed".  ended says
\* how it left the loop, status_code the status of the upstream response (0
\* before there is one).  upstream_buf is the text the upstream has produced
\* that the transport has not delivered yet, inp the chunks aiter_text() has
\* delivered, out the frames yielded to the client, cleanup the state of the
\* cleanup_request task created at line 336.
NewGenerator(request_id, request_data) ==
    [request_id |-> request_id,
     request_data |-> request_data,
     pc |-> "created",
     status_code |-> 0,
     ended |-> "no",
     cor |-> Correlator(FALSE, None),
     upstream_buf |-> <<>>,
     inp |-> <<>>,
     out |-> <<>>,
     cleanup |-> "none"]

\* One model invocation of the place recommendation agent in one session:
\* pc is "idle" before store_request, "calling" while the model call is in
\* flight and "done" once handle_empty_response has returned; llm_request is
\* the request of this invocation, llm_response the model's answer, retries
\* the answers of the retry calls made, sent the requests they sent, result
\* what handle_empty_response returned.
Sessions == 1..MaxSessions

LlmRequest(session) == [model |-> "gemini", contents |-> session]

NoResult == [kind |-> "unset", parts |-> <<>>]

NewInvocation(session) ==
    [pc |-> "idle",
     llm_request |-> LlmRequest(session),
     llm_response |-> NoResult,
     retries |-> <<>>,
     sent |-> <<>>,
     result |-> NoResult]

\* deep_tAIpei_app/app/main.py 52-54: the location file, absent or holding
\* the JSON dump of a record
NoFile == [exists |-> FALSE, content |-> <<>>]
FileWith(location_data) == [exists |-> TRUE, content |-> location_data]

NoResponse == [op |-> "none", arg |-> <<>>, code |-> 0]
Response(op, arg, code) == [op |-> op, arg |-> arg, code |-> code]

Init ==
    /\ SSE_MESSAGES = <<>>
    /\ USER_LOCATIONS = <<>>
    /\ next_uuid = 0
    /\ streams = <<>>
    /\ http = NoResponse
    /\ STORED_REQUESTS = <<>>
    /\ invocations = [session \in Sessions |-> NewInvocation(session)]
    /\ LOCATION_FILE = NoFile

\* ---------------------------------------------------------- location store
\* f"{location['lat']:.4f}, {location['lng']:.4f}" (main.py 119): KeyError on a
\* missing key, ValueError/TypeError on a value that is not a number
IsNumber(v) == Has(v, "num")

LogLocationRaises(location) ==
    \/ ~Has(location, "lat")
    \/ ~IsNumber(location["lat"])
    \/ ~Has(location, "lng")
    \/ ~IsNumber(location["lng"])

\* the record is stored with a default accuracy filled in
store_location_fills_accuracy(location) ==
    /\ USER_LOCATIONS' =
          SetKey(USER_LOCATIONS, "browser",
                 IF Has(location, "accuracy") THEN location
                 ELSE SetKey(location, "accuracy", Num(0)))
    /\ http' = Response("store_location", location,
                        IF LogLocationRaises(location) THEN 500 ELSE 200)
    /\ UNCHANGED <<STORED_REQUESTS, invocations, LOCATION_FILE, SSE_MESSAGES, next_uuid, streams>>

\* the fields of the report are written into the record already stored
store_location_merges(location) ==
    /\ USER_LOCATIONS' =
          SetKey(USER_LOCATIONS, "browser",
                 LET old == IF Has(USER_LOCATIONS, "browser")
                            THEN USER_LOCATIONS["browser"] ELSE <<>>
                 IN  [x \in DOMAIN old \cup DOMAIN location |->
                         IF x \in DOMAIN location THEN location[x] ELSE old[x]])
    /\ http' = Response("store_location", location,
                        IF LogLocationRaises(location) THEN 500 ELSE 200)
    /\ UNCHANGED <<STORED_REQUESTS, invocations, LOCATION_FILE, SSE_MESSAGES, next_uuid, streams>>

\* main.py 112-126
store_location(location) ==
    /\ USER_LOCATIONS' = SetKey(USER_LOCATIONS, "browser", location)
    /\ http' = Response("store_location", location,
                        IF LogLocationRaises(location) THEN 500 ELSE 200)
    /\ UNCHANGED <<STORED_REQUESTS, invocations, LOCATION_FILE, SSE_MESSAGES, next_uuid, streams>>

\* ----------------------------------------------------- pending-request store
\* main.py 192-221.  body.kind is "object" for a JSON object, "array" for
\* other JSON (json_data["streaming"] = True raises TypeError), "invalid" for
\* a body request.json() cannot parse.  uuid.uuid4() is the next unused id.
\* the body is stored with the streaming flag as the client sent it
prepare_sse_proxy_keeps_flag(body) ==
    IF body.kind = "object"
    THEN LET request_id == next_uuid + 1
         IN  /\ SSE_MESSAGES' = SetKey(SSE_MESSAGES, request_id,
                                       [data |-> body.value, status |-> "pending"])
             /\ next_uuid' = request_id
             /\ http' = Response("prepare_sse", [request_id |-> request_id], 200)
             /\ UNCHANGED <<STORED_REQUESTS, invocations, LOCATION_FILE, USER_LOCATIONS, streams>>
    ELSE /\ http' = Response("prepare_sse", body, 500)
         /\ UNCHANGED <<STORED_REQUESTS, invocations, LOCATION_FILE, SSE_MESSAGES, USER_LOCATIONS, next_uuid, streams>>

\* the entry is stored before the body is looked at
prepare_sse_proxy_stores_first(body) ==
    LET request_id == next_uuid + 1 IN
    /\ SSE_MESSAGES' = SetKey(SSE_MESSAGES, request_id,
                              [data |-> SetKey(body.value, "streaming", TRUE),
                               status |-> "pending"])
    /\ next_uuid' = request_id
    /\ http' = IF body.kind = "object"
               THEN Response("prepare_sse", [request_id |-> request_id], 200)
               ELSE Response("prepare_sse", body, 500)
    /\ UNCHANGED <<STORED_REQUESTS, invocations, LOCATION_FILE, USER_LOCATIONS, streams>>

prepare_sse_proxy(body) ==
    IF body.kind = "object"
    THEN LET json_data == SetKey(body.value, "streaming", TRUE)
             request_id == next_uuid + 1
         IN  /\ SSE_MESSAGES' = SetKey(SSE_MESSAGES, request_id,
                                       [data |-> json_data, status |-> "pending"])
             /\ next_uuid' = request_id
             /\ http' = Response("prepare_sse", [request_id |-> request_id], 200)
             /\ UNCHANGED <<STORED_REQUESTS, invocations, LOCATION_FILE, USER_LOCATIONS, streams>>
    ELSE /\ http' = Response("prepare_sse", body, 500)
         /\ UNCHANGED <<STORED_REQUESTS, invocations, LOCATION_FILE, SSE_MESSAGES, USER_LOCATIONS, next_uuid, streams>>

\* an unknown id is registered and streamed like a prepared one
sse_connect_registers(request_id) ==
    /\ SSE_MESSAGES' = SetKey(SSE_MESSAGES, request_id,
                              [data |-> <<>>, status |-> "in-progress"])
    /\ streams' = Append(streams, NewGenerator(request_id, <<>>))
    /\ http' = Response("sse_connect", [request_id |-> request_id], 200)
    /\ UNCHANGED <<STORED_REQUESTS, invocations, LOCATION_FILE, USER_LOCATIONS, next_uuid>>

\* main.py 223-352
sse_connect(request_id) ==
    IF request_id \notin DOMAIN SSE_MESSAGES
    THEN /\ http' = Response("sse_connect", [request_id |-> request_id], 404)
         /\ UNCHANGED <<STORED_REQUESTS, invocations, LOCATION_FILE, SSE_MESSAGES, USER_LOCATIONS, next_uuid, streams>>
    ELSE /\ SSE_MESSAGES' = [SSE_MESSAGES EXCEPT ![request_id].status = "in-progress"]
         /\ streams' = Append(streams,
                              NewGenerator(request_id, SSE_MESSAGES[request_id].data))
         /\ http' = Response("sse_connect", [request_id |-> request_id], 200)
         /\ UNCHANGED <<STORED_REQUESTS, invocations, LOCATION_FILE, USER_LOCATIONS, next_uuid>>

\* the status is written whether or not the entry is still there
SetStatusIfPresent_creates(messages, request_id, status) ==
    IF request_id \in DOMAIN messages
    THEN [messages EXCEPT ![request_id].status = status]
    ELSE SetKey(messages, request_id, [data |-> <<>>, status |-> status])

\* set_status as the generator does it (main.py 333-334, 340-341)
SetStatusIfPresent(messages, request_id, status) ==
    IF request_id \in DOMAIN messages
    THEN [messages EXCEPT ![request_id].status = status]
    ELSE messages

\* main.py 417-418
DeleteIfPresent(messages, request_id) ==
    [x \in DOMAIN messages \ {request_id} |-> messages[x]]

\* --------------------------------------------------------- event_generator
\* main.py 246-248: the upstream answers 200 and the async-for starts
GenOpen(s) ==
    /\ streams[s].pc = "created"
    /\ streams' = [streams EXCEPT ![s].pc = "streaming", ![s].status_code = 200]
    /\ UNCHANGED <<STORED_REQUESTS, invocations, LOCATION_FILE, SSE_MESSAGES, USER_LOCATIONS, next_uuid, http>>

\* main.py 248-251: the upstream answers with another status; the body is
\* yielded and the generator returns, skipping lines 333-336
GenNonSuccess(s, error_content) ==
    /\ streams[s].pc = "created"
    /\ streams' = [streams EXCEPT ![s].pc = "closed",
                                  ![s].status_code = 404,
                                  ![s].ended = "non_success",
                                  ![s].out = Append(@, UpstreamErrorFrame(error_content))]
    /\ UNCHANGED <<STORED_REQUESTS, invocations, LOCATION_FILE, SSE_MESSAGES, USER_LOCATIONS, next_uuid, http>>

\* the upstream produces more text (one or several events)
UpstreamEmit(s, text) ==
    /\ streams[s].pc = "streaming"
    /\ streams[s].upstream_buf = <<>>
    /\ streams' = [streams EXCEPT ![s].upstream_buf = text]
    /\ UNCHANGED <<STORED_REQUESTS, invocations, LOCATION_FILE, SSE_MESSAGES, USER_LOCATIONS, next_uuid, http>>

\* the two correlator variables are module globals shared by all generators
GenChunk_shared_correlator(s, n) ==
    /\ streams[s].pc = "streaming"
    /\ n \in 1..Len(streams[s].upstream_buf)
    /\ LET g == streams[s]
           armed == {t \in DOMAIN streams : streams[t].cor.function_call_detected}
           cor == IF armed = {} THEN g.cor ELSE streams[CHOOSE t \in armed : TRUE].cor
           chunk == SubSeq(g.upstream_buf, 1, n)
           rest == SubSeq(g.upstream_buf, n + 1, Len(g.upstream_buf))
           r == ProcessChunk(chunk, cor, USER_LOCATIONS)
       IN  streams' = [streams EXCEPT ![s] =
               IF r.raised = None
               THEN [g EXCEPT !.upstream_buf = rest,
                              !.inp = Append(@, chunk),
                              !.cor = r.cor,
                              !.out = @ \o r.frames]
               ELSE [g EXCEPT !.upstream_buf = rest,
                              !.inp = Append(@, chunk),
                              !.cor = r.cor,
                              !.pc = "error_yielded",
                              !.ended = "error",
                              !.out = Append(@, ErrorFrame(r.raised))]]
    /\ UNCHANGED <<STORED_REQUESTS, invocations, LOCATION_FILE, SSE_MESSAGES, USER_LOCATIONS, next_uuid, http>>

\* the browser record is read once per stream: a later substitution reuses
\* the location of the stream's first one
GenChunk_caches_location(s, n) ==
    /\ streams[s].pc = "streaming"
    /\ n \in 1..Len(streams[s].upstream_buf)
    /\ LET g == streams[s]
           loaded(i) == Loads(SubSeq(g.out[i].text, Len(DataPrefix) + 1, Len(g.out[i].text)))
           parts(i) == IF g.out[i].site = "data" /\ loaded(i).is_dict /\ HasParts(loaded(i).value)
                       THEN loaded(i).value["content"]["parts"]
                       ELSE <<>>
           replaced(part) == /\ Has(part, "functionResponse")
                             /\ Has(part["functionResponse"], "response")
                             /\ Get(part["functionResponse"]["response"], "source") = "browser"
           earlier == {i \in 1..Len(g.out) :
                          \E k \in 1..Len(parts(i)) : replaced(parts(i)[k])}
           first == CHOOSE i \in earlier : \A j \in earlier : i <= j
           used == LET k == CHOOSE k \in 1..Len(parts(first)) : replaced(parts(first)[k])
                   IN  parts(first)[k]["functionResponse"]["response"]
           locs == IF earlier = {}
                   THEN USER_LOCATIONS
                   ELSE [browser |-> [lat |-> used["coordinates"]["lat"],
                                      lng |-> used["coordinates"]["lng"],
                                      accuracy |-> used["accuracy"]]]
           chunk == SubSeq(g.upstream_buf, 1, n)
           rest == SubSeq(g.upstream_buf, n + 1, Len(g.upstream_buf))
           r == ProcessChunk(chunk, g.cor, locs)
       IN  streams' = [streams EXCEPT ![s] =
               IF r.raised = None
               THEN [g EXCEPT !.upstream_buf = rest,
                              !.inp = Append(@, chunk),
                              !.cor = r.cor,
                              !.out = @ \o r.frames]
               ELSE [g EXCEPT !.upstream_buf = rest,
                              !.inp = Append(@, chunk),
                              !.cor = r.cor,
                              !.pc = "error_yielded",
                              !.ended = "error",
                              !.out = Append(@, ErrorFrame(r.raised))]]
    /\ UNCHANGED <<STORED_REQUESTS, invocations, LOCATION_FILE, SSE_MESSAGES, USER_LOCATIONS, next_uuid, http>>

\* the frames of a chunk are withheld from the client
GenChunk_withholds(s, n) ==
    /\ streams[s].pc = "streaming"
    /\ n \in 1..Len(streams[s].upstream_buf)
    /\ LET g == streams[s]
           chunk == SubSeq(g.upstream_buf, 1, n)
           rest == SubSeq(g.upstream_buf, n + 1, Len(g.upstream_buf))
           r == ProcessChunk(chunk, g.cor, USER_LOCATIONS)
       IN  streams' = [streams EXCEPT ![s] =
               IF r.raised = None
               THEN [g EXCEPT !.upstream_buf = rest,
                              !.inp = Append(@, chunk),
                              !.cor = r.cor]
               ELSE [g EXCEPT !.upstream_buf = rest,
                              !.inp = Append(@, chunk),
                              !.cor = r.cor,
                              !.pc = "error_yielded",
                              !.ended = "error",
                              !.out = Append(@, ErrorFrame(r.raised))]]
    /\ UNCHANGED <<STORED_REQUESTS, invocations, LOCATION_FILE, SSE_MESSAGES, USER_LOCATIONS, next_uuid, http>>

\* the frames of a chunk are put in front of the frames already yielded
GenChunk_prepends(s, n) ==
    /\ streams[s].pc = "streaming"
    /\ n \in 1..Len(streams[s].upstream_buf)
    /\ LET g == streams[s]
           chunk == SubSeq(g.upstream_buf, 1, n)
           rest == SubSeq(g.upstream_buf, n + 1, Len(g.upstream_buf))
           r == ProcessChunk(chunk, g.cor, USER_LOCATIONS)
       IN  streams' = [streams EXCEPT ![s] =
               IF r.raised = None
               THEN [g EXCEPT !.upstream_buf = rest,
                              !.inp = Append(@, chunk),
                              !.cor = r.cor,
                              !.out = r.frames \o @]
               ELSE [g EXCEPT !.upstream_buf = rest,
                              !.inp = Append(@, chunk),
                              !.cor = r.cor,
                              !.pc = "error_yielded",
                              !.ended = "error",
                              !.out = Append(@, ErrorFrame(r.raised))]]
    /\ UNCHANGED <<STORED_REQUESTS, invocations, LOCATION_FILE, SSE_MESSAGES, USER_LOCATIONS, next_uuid, http>>

\* main.py 253-330: aiter_text() delivers the first n tokens of the pending
\* text as the next chunk and the loop body runs on it; an exception in the
\* body is caught at line 337 and the error frame of line 339 is yielded
GenChunk(s, n) ==
    /\ streams[s].pc = "streaming"
    /\ n \in 1..Len(streams[s].upstream_buf)
    /\ LET g == streams[s]
           chunk == SubSeq(g.upstream_buf, 1, n)
           rest == SubSeq(g.upstream_buf, n + 1, Len(g.upstream_buf))
           r == ProcessChunk(chunk, g.cor, USER_LOCATIONS)
       IN  streams' = [streams EXCEPT ![s] =
               IF r.raised = None
               THEN [g EXCEPT !.upstream_buf = rest,
                              !.inp = Append(@, chunk),
                              !.cor = r.cor,
                              !.out = @ \o r.frames]
               ELSE [g EXCEPT !.upstream_buf = rest,
                              !.inp = Append(@, chunk),
                              !.cor = r.cor,
                              !.pc = "error_yielded",
                              !.ended = "error",
                              !.out = Append(@, ErrorFrame(r.raised))]]
    /\ UNCHANGED <<STORED_REQUESTS, invocations, LOCATION_FILE, SSE_MESSAGES, USER_LOCATIONS, next_uuid, http>>

\* main.py 332-336: the upstream ends cleanly
GenEnd(s) ==
    /\ streams[s].pc = "streaming"
    /\ streams[s].upstream_buf = <<>>
    /\ LET present == streams[s].request_id \in DOMAIN SSE_MESSAGES IN
       /\ SSE_MESSAGES' = SetStatusIfPresent(SSE_MESSAGES, streams[s].request_id, "completed")
       /\ streams' = [streams EXCEPT ![s].pc = "closed",
                                     ![s].ended = "completed",
                                     ![s].cleanup = IF present THEN "sleeping" ELSE "none"]
    /\ UNCHANGED <<STORED_REQUESTS, invocations, LOCATION_FILE, USER_LOCATIONS, next_uuid, http>>

\* main.py 337-339: the connection fails, times out or drops (an httpx
\* exception out of client.stream or aiter_text); the error frame is yielded
GenFail(s) ==
    /\ streams[s].pc \in {"created", "streaming"}
    /\ streams' = [streams EXCEPT ![s].pc = "error_yielded",
                                  ![s].ended = "error",
                                  ![s].out = Append(@, ErrorFrame("upstream"))]
    /\ UNCHANGED <<STORED_REQUESTS, invocations, LOCATION_FILE, SSE_MESSAGES, USER_LOCATIONS, next_uuid, http>>

\* the generator ends after the error frame without touching the status
GenErrorResume_unmarked(s) ==
    /\ streams[s].pc = "error_yielded"
    /\ streams' = [streams EXCEPT ![s].pc = "closed"]
    /\ UNCHANGED <<STORED_REQUESTS, invocations, LOCATION_FILE, SSE_MESSAGES, USER_LOCATIONS, next_uuid, http>>

\* main.py 340-341: the generator is resumed after the yield of line 339
GenErrorResume(s) ==
    /\ streams[s].pc = "error_yielded"
    /\ SSE_MESSAGES' = SetStatusIfPresent(SSE_MESSAGES, streams[s].request_id, "error")
    /\ streams' = [streams EXCEPT ![s].pc = "closed"]
    /\ UNCHANGED <<STORED_REQUESTS, invocations, LOCATION_FILE, USER_LOCATIONS, next_uuid, http>>

\* the disconnect is noted and the generator keeps running
ClientDisconnect_detached(s) ==
    /\ streams[s].pc \in {"created", "streaming", "error_yielded"}
    /\ streams' = [streams EXCEPT ![s].ended = IF @ = "no" THEN "cancelled" ELSE @]
    /\ UNCHANGED <<STORED_REQUESTS, invocations, LOCATION_FILE, SSE_MESSAGES, USER_LOCATIONS, next_uuid, http>>

\* main.py 241-346: the client goes away and the response task is cancelled.
\* The generator, suspended at a yield or at an await of the upstream, gets
\* GeneratorExit/CancelledError there: except Exception (line 337) does not
\* catch it, the two async-with blocks (244-245) close the upstream response
\* and the client on the way out, and lines 332-336 and 340-341 do not run.
ClientDisconnect(s) ==
    /\ streams[s].pc \in {"created", "streaming", "error_yielded"}
    /\ streams' = [streams EXCEPT ![s].pc = "closed",
                                  ![s].ended = IF @ = "no" THEN "cancelled" ELSE @]
    /\ UNCHANGED <<STORED_REQUESTS, invocations, LOCATION_FILE, SSE_MESSAGES, USER_LOCATIONS, next_uuid, http>>

\* the task wakes up and removes nothing
cleanup_request_keeps(s) ==
    /\ streams[s].cleanup = "sleeping"
    /\ streams' = [streams EXCEPT ![s].cleanup = "done"]
    /\ UNCHANGED <<STORED_REQUESTS, invocations, LOCATION_FILE, SSE_MESSAGES, USER_LOCATIONS, next_uuid, http>>

\* main.py 414-419: asyncio.sleep(delay) returns and the entry is deleted
cleanup_request(s) ==
    /\ streams[s].cleanup = "sleeping"
    /\ SSE_MESSAGES' = DeleteIfPresent(SSE_MESSAGES, streams[s].request_id)
    /\ streams' = [streams EXCEPT ![s].cleanup = "done"]
    /\ UNCHANGED <<STORED_REQUESTS, invocations, LOCATION_FILE, USER_LOCATIONS, next_uuid, http>>

\* ------------------------------------------------------------- run_proxy
\* main.py 158-190.  upstream is what the POST to the agent server gives:
\* a timeout, another failure (no connection, a body that is not JSON), or a
\* response with a status code and a decoded body.
run_proxy(upstream) ==
    /\ http' =
          IF upstream.kind = "timeout"
          THEN Response("run", [upstream |-> upstream,
                                content |-> JsonBody(FALSE, [detail |-> "timed out"])], 504)
          ELSE IF upstream.kind = "failure"
          THEN Response("run", [upstream |-> upstream,
                                content |-> JsonBody(FALSE, [detail |-> "failure"])], 500)
          ELSE LET processed_data == intercept_function_calls(upstream.body, USER_LOCATIONS)
               IN  IF processed_data.raised # None
                   THEN Response("run", [upstream |-> upstream,
                                         content |-> JsonBody(FALSE,
                                                        [detail |-> processed_data.raised])], 500)
                   ELSE Response("run", [upstream |-> upstream,
                                         content |-> JsonBody(upstream.body.is_list,
                                                              processed_data.value)],
                                 upstream.status_code)
    /\ UNCHANGED <<STORED_REQUESTS, invocations, LOCATION_FILE, SSE_MESSAGES, USER_LOCATIONS, next_uuid, streams>>

\* --------------------------------------------------- create_session_proxy
\* main.py 129-156.  upstream as for run_proxy; the decoded body of the
\* answer is returned as it is, with the upstream's status code.
create_session_proxy(upstream) ==
    /\ http' =
          IF upstream.kind = "timeout"
          THEN Response("session", [upstream |-> upstream,
                                    content |-> JsonBody(FALSE, [detail |-> "timed out"])], 504)
          ELSE IF upstream.kind = "failure"
          THEN Response("session", [upstream |-> upstream,
                                    content |-> JsonBody(FALSE, [detail |-> "failure"])], 500)
          ELSE Response("session", [upstream |-> upstream, content |-> upstream.body],
                        upstream.status_code)
    /\ UNCHANGED <<STORED_REQUESTS, invocations, LOCATION_FILE, SSE_MESSAGES, USER_LOCATIONS, next_uuid, streams>>

\* ---------------------------------------------------- the location file
\* deep_tAIpei_app/app/main.py 57-68: open(LOCATION_FILE, 'w') and json.dump;
\* written says whether the file could be opened for writing, and when it
\* could not the exception is swallowed and the file is left as it was
save_location_to_file(file, location_data, written) ==
    IF written THEN FileWith(location_data) ELSE file

\* deep_tAIpei_app/app/main.py 111-129: store_location of the deep_tAIpei app
deep_store_location(location, written) ==
    /\ USER_LOCATIONS' = SetKey(USER_LOCATIONS, "browser", location)
    /\ IF LogLocationRaises(location)
       THEN /\ LOCATION_FILE' = LOCATION_FILE
            /\ http' = Response("store_location", location, 500)
       ELSE /\ LOCATION_FILE' = save_location_to_file(LOCATION_FILE, location, written)
            /\ http' = Response("store_location", location, 200)
    /\ UNCHANGED <<SSE_MESSAGES, next_uuid, streams, STORED_REQUESTS, invocations>>

\* ---------------------------------------------- place recommendation agent
\* agent.py 131-139: the one agent that has the two callbacks
agent_name == "place_recommendation_agent"

MAX_RETRIES == 3

\* a types.Part: its function_call (None when it has none) and its text (the
\* empty text when it is None or "")
Part(function_call, text) == [function_call |-> function_call, text |-> text]

\* an LlmResponse, or what generate_content gives: kind is "none" (no
\* response object), "raises" (the call raised), "no_candidates",
\* "no_content" or "content"; parts are the parts of the content (of the
\* first candidate, for an answer of generate_content)
LlmResponse(kind, parts) == [kind |-> kind, parts |-> parts]

\* agent.py 50, 54 and 105-106
HasFunctionCallOrText(part) ==
    part.function_call # None \/ Strip(part.text) # <<>>

\* a part with a function call and no text does not count
ResponseIsEmpty_text_only(llm_response) ==
    IF llm_response.kind # "content" \/ llm_response.parts = <<>>
    THEN TRUE
    ELSE ~\E k \in 1..Len(llm_response.parts) : Strip(llm_response.parts[k].text) # <<>>

\* agent.py 45-58
ResponseIsEmpty(llm_response) ==
    IF llm_response.kind # "content" \/ llm_response.parts = <<>>
    THEN TRUE
    ELSE ~\E k \in 1..Len(llm_response.parts) : HasFunctionCallOrText(llm_response.parts[k])

\* any answer that has parts is taken
RetryIsValid_any_parts(retry_response) ==
    /\ retry_response.kind = "content"
    /\ retry_response.parts # <<>>

\* agent.py 98-106
RetryIsValid(retry_response) ==
    /\ retry_response.kind = "content"
    /\ \E k \in 1..Len(retry_response.parts) : HasFunctionCallOrText(retry_response.parts[k])

\* agent.py 53, 56: the callback returns None and the model's response is kept
ReturnNone == LlmResponse("None", <<>>)
\* agent.py 70-75
TroubleProcessing ==
    LlmResponse("content", <<Part(None, <<Ch("I'm having trouble processing your request.")>>)>>)
\* agent.py 118-128
TroubleProviding ==
    LlmResponse("content", <<Part(None, <<Ch("I'm sorry, I'm having trouble providing information")>>)>>)

\* agent.py 80-115: the retry loop from attempt retry_count on; answers[n] is
\* what the n-th generate_content call gives.  retries are the answers of
\* the calls made, sent the requests they carried.
RECURSIVE RetryLoop(_, _, _)
RetryLoop(llm_request, answers, retry_count) ==
    IF retry_count > MAX_RETRIES
    THEN [result |-> TroubleProviding, retries |-> <<>>, sent |-> <<>>]
    ELSE IF RetryIsValid(answers[retry_count])
    THEN [result |-> LlmResponse("content", answers[retry_count].parts),
          retries |-> <<answers[retry_count]>>,
          sent |-> <<llm_request>>]
    ELSE LET rest == RetryLoop(llm_request, answers, retry_count + 1)
         IN  [result |-> rest.result,
              retries |-> <<answers[retry_count]>> \o rest.retries,
              sent |-> <<llm_request>> \o rest.sent]

\* agent.py 18-32: the before-model callback of the invocation of a session
store_request(session) ==
    /\ invocations[session].pc = "idle"
    /\ STORED_REQUESTS' = SetKey(STORED_REQUESTS, agent_name, invocations[session].llm_request)
    /\ invocations' = [invocations EXCEPT ![session].pc = "calling"]
    /\ UNCHANGED <<SSE_MESSAGES, USER_LOCATIONS, next_uuid, streams, http, LOCATION_FILE>>

\* agent.py 34-128: the after-model callback, called with the model's
\* response; generate_content is a blocking call, so the callback runs to its
\* return without another callback in between.
handle_empty_response(session, llm_response, answers) ==
    /\ invocations[session].pc # "done"
    /\ LET r == IF ~ResponseIsEmpty(llm_response)
                THEN [result |-> ReturnNone, retries |-> <<>>, sent |-> <<>>]
                ELSE IF ~Has(STORED_REQUESTS, agent_name)
                THEN [result |-> TroubleProcessing, retries |-> <<>>, sent |-> <<>>]
                ELSE RetryLoop(STORED_REQUESTS[agent_name], answers, 1)
       IN  invocations' = [invocations EXCEPT ![session] =
               [@ EXCEPT !.pc = "done",
                         !.llm_response = llm_response,
                         !.retries = r.retries,
                         !.sent = r.sent,
                         !.result = r.result]]
    /\ UNCHANGED <<SSE_MESSAGES, USER_LOCATIONS, next_uuid, streams, http,
                   STORED_REQUESTS, LOCATION_FILE>>

\* ------------------------------------------------------------------ inputs
\* location reports: complete, without accuracy, without lat, with a
\* non-numeric lat, empty
LocFull == [lat |-> Num(25), lng |-> Num(121), accuracy |-> Num(10)]
LocNoAccuracy == [lat |-> Num(24), lng |-> Num(120)]
LocNoLat == [lng |-> Num(121)]
LocTextLat == [lat |-> Str("north"), lng |-> Num(121)]
LocEmpty == <<>>

Locations == {LocFull, LocNoAccuracy, LocNoLat, LocTextLat, LocEmpty}

\* prepare bodies
BodyRun == [kind |-> "object", value |-> [app_name |-> "a", streaming |-> FALSE]]
BodyInvalid == [kind |-> "invalid", value |-> <<>>]
Bodies == {BodyRun, BodyInvalid}

\* upstream events
CallPart(name, id) == [functionCall |-> [name |-> name, id |-> id]]
ResponsePart(name, id, response) ==
    [functionResponse |-> [name |-> name, id |-> id, response |-> response]]
TextPart == [text |-> "hi"]

Event(parts) == [content |-> [parts |-> parts], author |-> "agent"]

\* the text of one SSE event as the upstream writes it
EventText(data) ==
    DataPrefix \o <<Ch("{"), Mem(data, "compact"), Ch("}")>> \o Terminator

UpstreamFailure == [status |-> "error", message |-> "no location"]

CallA == Event(<<CallPart("get_current_place", "A")>>)
RespA == Event(<<ResponsePart("get_current_place", "A", UpstreamFailure)>>)
RespB == Event(<<ResponsePart("get_current_place", "B", UpstreamFailure)>>)
SayHi == Event(<<TextPart>>)
CallThenRespA ==
    Event(<<CallPart("get_current_place", "A"),
            ResponsePart("get_current_place", "A", UpstreamFailure)>>)

ListText == DataPrefix \o <<Ch("["), Ch("]")>> \o Terminator
BlankText == <<NL>>
ErrorBody == <<Ch("{"), Mem([detail |-> "Not Found"], "compact"), Ch("}")>>

Payloads == {CallA, RespA, RespB, SayHi, CallThenRespA}

\* what the upstream writes in the lifecycle specification, always delivered
\* as one chunk per event
LifeTexts == {EventText(SayHi), ListText}

\* what it writes in the single-stream specification, delivered in any split
StreamTexts == {EventText(d) : d \in Payloads} \cup {ListText, BlankText}

MaxStreamChunks == 2

\* more upstream events: a second call, a call and a response without
\* identifiers, show_place_details responses, an event of several parts
PlaceFound ==
    [status |-> "success", location |-> [lat |-> Num(25), lng |-> Num(121)],
     name |-> "Taipei 101"]
PlaceNotFound == [status |-> "error", message |-> "not found"]
PlaceNamedOnly == [status |-> "success", location |-> Str("Taipei 101")]
PlaceNullLocation == [status |-> "success", location |-> JsonNull]

CallB == Event(<<CallPart("get_current_place", "B")>>)
CallNoId == Event(<<[functionCall |-> [name |-> "get_current_place"]]>>)
ShowA == Event(<<ResponsePart("show_place_details", "A", PlaceFound)>>)
ShowC == Event(<<ResponsePart("show_place_details", "C", PlaceFound)>>)
ShowNoId ==
    Event(<<[functionResponse |-> [name |-> "show_place_details", response |-> PlaceFound]]>>)
ShowNotFound == Event(<<ResponsePart("show_place_details", "C", PlaceNotFound)>>)
ShowNamedOnly == Event(<<ResponsePart("show_place_details", "C", PlaceNamedOnly)>>)
ShowNullLocation == Event(<<ResponsePart("show_place_details", "C", PlaceNullLocation)>>)
Mixed ==
    Event(<<TextPart,
            ResponsePart("get_current_place", "A", UpstreamFailure),
            ResponsePart("show_place_details", "C", PlaceFound)>>)

\* a data chunk whose payload is not JSON, and one chunk holding two events
NotJsonText == DataPrefix \o <<Ch("h"), Ch("i")>> \o Terminator
TwoEventsText == EventText(CallA) \o EventText(RespA)

\* what the upstream writes in the rewrite specification, one chunk each
RewritePayloads == {CallA, CallB, RespA, RespB, CallNoId, ShowA, ShowNoId, ShowNamedOnly, Mixed}
RewriteTexts == {EventText(d) : d \in RewritePayloads} \cup {NotJsonText, TwoEventsText}

MaxRewriteChunks == 3

\* what the agent server answers to /run
RunEvents == {CallA, RespA, ShowC, ShowNotFound, ShowNullLocation, ShowNamedOnly, Mixed}

MaxRunEvents == 2

RunLists == UNION {[1..n -> RunEvents] : n \in 0..MaxRunEvents}

RunUpstreams ==
    {[kind |-> "timeout"], [kind |-> "failure"],
     [kind |-> "response", status_code |-> 500,
      body |-> JsonBody(FALSE, [detail |-> "Internal Server Error"])]}
    \cup {[kind |-> "response", status_code |-> 200, body |-> JsonBody(TRUE, events)] :
             events \in RunLists}

\* what the agent server answers to the session creation
SessionUpstreams ==
    {[kind |-> "timeout"], [kind |-> "failure"],
     [kind |-> "response", status_code |-> 200,
      body |-> JsonBody(FALSE, [id |-> "s1"])],
     [kind |-> "response", status_code |-> 400,
      body |-> JsonBody(FALSE, [detail |-> "Session already exists"])]}

\* two streams side by side: a get_current_place call and a response with
\* the same identifier
PairTexts == {EventText(CallA), EventText(RespA)}

MaxPairChunks == 2

\* parts of a model answer: a function call, a text, a blank text, a part
\* with neither
ModelCall == Part("find_places_nearby", <<>>)
ModelText == Part(None, <<Ch("h"), Ch("i")>>)
ModelBlank == Part(None, <<SP, NL>>)
ModelOther == Part(None, <<>>)

\* what the after-model callback is called with
LlmResponses ==
    {LlmResponse("none", <<>>), LlmResponse("no_content", <<>>),
     LlmResponse("content", <<>>), LlmResponse("content", <<ModelBlank>>),
     LlmResponse("content", <<ModelOther, ModelBlank>>),
     LlmResponse("content", <<ModelText>>), LlmResponse("content", <<ModelCall>>),
     LlmResponse("content", <<ModelBlank, ModelCall>>)}

\* what one retry call gives
RetryAnswers ==
    {LlmResponse("raises", <<>>), LlmResponse("no_candidates", <<>>),
     LlmResponse("content", <<ModelBlank>>), LlmResponse("content", <<ModelText>>),
     LlmResponse("content", <<ModelOther, ModelCall>>)}

RetryRuns == [1..MAX_RETRIES -> RetryAnswers]

\* the same for sessions side by side: an empty or a usable answer
SessionResponses == {LlmResponse("content", <<>>), LlmResponse("content", <<ModelText>>)}
SessionRuns ==
    [1..MAX_RETRIES -> {LlmResponse("content", <<ModelBlank>>), LlmResponse("content", <<ModelText>>)}]

\* prepare bodies: with the flag off, without the flag, JSON that is not an
\* object, text that is not JSON
BodyNoFlag == [kind |-> "object", value |-> [app_name |-> "b"]]
BodyArray == [kind |-> "array", value |-> <<>>]
PrepareBodies == {BodyRun, BodyNoFlag, BodyArray, BodyInvalid}

MaxPrepares == 2

\* ------------------------------------------------------- the specifications
Streams == 1..Len(streams)

\* The pending-request lifecycle: prepare and connect requests interleaved
\* with the steps of up to MaxStreams generators and their cleanup timers.
\* The upstream delivers each event as one chunk; no location is reported.
Next ==
    \/ next_uuid < MaxRequests /\ prepare_sse_proxy(BodyRun)
    \/ \E request_id \in 1..MaxRequests :
          /\ request_id \in DOMAIN SSE_MESSAGES => Len(streams) < MaxStreams
          /\ sse_connect(request_id)
    \/ \E s \in Streams : GenOpen(s)
    \/ \E s \in Streams : GenNonSuccess(s, ErrorBody)
    \/ \E s \in Streams, text \in LifeTexts :
          Len(streams[s].inp) < MaxChunks /\ UpstreamEmit(s, text)
    \/ \E s \in Streams : GenChunk(s, Len(streams[s].upstream_buf))
    \/ \E s \in Streams : GenEnd(s)
    \/ \E s \in Streams : GenFail(s)
    \/ \E s \in Streams : GenErrorResume(s)
    \/ \E s \in Streams : cleanup_request(s)

Spec == Init /\ [][Next]_vars

\* The stream pipeline: one request and one generator, location reports
\* arriving at any moment, the upstream text delivered in arbitrary chunks.
NextStream ==
    \/ \E location \in Locations : store_location(location)
    \/ \E body \in Bodies :
          (body.kind = "object" => next_uuid < 1) /\ prepare_sse_proxy(body)
    \/ Len(streams) < 1 /\ sse_connect(1)
    \/ \E s \in Streams : GenOpen(s)
    \/ \E s \in Streams : GenNonSuccess(s, ErrorBody)
    \/ \E s \in Streams, text \in StreamTexts :
          Len(streams[s].inp) < MaxStreamChunks /\ UpstreamEmit(s, text)
    \/ \E s \in Streams : \E n \in 1..Len(streams[s].upstream_buf) :
          /\ Len(streams[s].inp) + 1 < MaxStreamChunks \/ n = Len(streams[s].upstream_buf)
          /\ GenChunk(s, n)
    \/ \E s \in Streams : GenEnd(s)
    \/ \E s \in Streams : GenFail(s)
    \/ \E s \in Streams : GenErrorResume(s)
    \/ \E s \in Streams : cleanup_request(s)

SpecStream == Init /\ [][NextStream]_vars

\* The rewrite pipeline: one request and one generator; the location is
\* reported before the stream is connected and every upstream event arrives
\* as one chunk, so that a stream is the rewrite of a list of events under one
\* Location Store content.
NextRewrite ==
    \/ streams = <<>> /\ store_location(LocFull)
    \/ next_uuid < 1 /\ prepare_sse_proxy(BodyRun)
    \/ Len(streams) < 1 /\ sse_connect(1)
    \/ \E s \in Streams : GenOpen(s)
    \/ \E s \in Streams, text \in RewriteTexts :
          Len(streams[s].inp) < MaxRewriteChunks /\ UpstreamEmit(s, text)
    \/ \E s \in Streams : GenChunk(s, Len(streams[s].upstream_buf))
    \/ \E s \in Streams : GenEnd(s)
    \/ \E s \in Streams : GenErrorResume(s)
    \/ \E s \in Streams : cleanup_request(s)

SpecRewrite == Init /\ [][NextRewrite]_vars

\* The non-streaming endpoints: location reports, session creations and
\* /proxy/run requests.
NextRun ==
    \/ \E location \in Locations : store_location(location)
    \/ \E upstream \in RunUpstreams : run_proxy(upstream)
    \/ \E upstream \in SessionUpstreams : create_session_proxy(upstream)

SpecRun == Init /\ [][NextRun]_vars

\* The Pending-Request Store: prepare requests with every kind of body, one
\* connect per stored id, streams without events, and their cleanup timers.
NextPrepare ==
    \/ \E body \in PrepareBodies :
          (body.kind = "object" => next_uuid < MaxPrepares) /\ prepare_sse_proxy(body)
    \/ \E request_id \in 1..MaxPrepares :
          /\ \A s \in Streams : streams[s].request_id # request_id
          /\ sse_connect(request_id)
    \/ \E s \in Streams : GenOpen(s)
    \/ \E s \in Streams : GenEnd(s)
    \/ \E s \in Streams : cleanup_request(s)

SpecPrepare == Init /\ [][NextPrepare]_vars

\* One stream and its client: the upstream delivers whole events, fails or
\* ends, and the client may go away at any moment.
NextDisconnect ==
    \/ next_uuid < 1 /\ prepare_sse_proxy(BodyRun)
    \/ Len(streams) < 1 /\ sse_connect(1)
    \/ \E s \in Streams : GenOpen(s)
    \/ \E s \in Streams : GenNonSuccess(s, ErrorBody)
    \/ \E s \in Streams, text \in StreamTexts :
          Len(streams[s].inp) < MaxStreamChunks /\ UpstreamEmit(s, text)
    \/ \E s \in Streams : GenChunk(s, Len(streams[s].upstream_buf))
    \/ \E s \in Streams : GenEnd(s)
    \/ \E s \in Streams : GenFail(s)
    \/ \E s \in Streams : GenErrorResume(s)
    \/ \E s \in Streams : ClientDisconnect(s)
    \/ \E s \in Streams : cleanup_request(s)

SpecDisconnect == Init /\ [][NextDisconnect]_vars

\* Two requests and their two streams running side by side under one
\* Location Store, each fed whole events.
NextPair ==
    \/ streams = <<>> /\ store_location(LocFull)
    \/ next_uuid < 2 /\ prepare_sse_proxy(BodyRun)
    \/ \E request_id \in 1..2 :
          /\ \A s \in Streams : streams[s].request_id # request_id
          /\ sse_connect(request_id)
    \/ \E s \in Streams : GenOpen(s)
    \/ \E s \in Streams, text \in PairTexts :
          Len(streams[s].inp) < MaxPairChunks /\ UpstreamEmit(s, text)
    \/ \E s \in Streams : GenChunk(s, Len(streams[s].upstream_buf))
    \/ \E s \in Streams : GenEnd(s)

SpecPair == Init /\ [][NextPair]_vars

\* The after-model callback as a function: one invocation, called with any
\* model response, before or after store_request has stored its request.
NextRetry ==
    \/ store_request(1)
    \/ \E llm_response \in LlmResponses, answers \in RetryRuns :
          handle_empty_response(1, llm_response, answers)

SpecRetry == Init /\ [][NextRetry]_vars

\* The agent serving several sessions: each invocation runs store_request,
\* waits for the model, and runs handle_empty_response on the answer; the
\* invocations of different sessions interleave while they wait.
NextSessions ==
    \/ \E session \in Sessions : store_request(session)
    \/ \E session \in Sessions, llm_response \in SessionResponses, answers \in SessionRuns :
          /\ invocations[session].pc = "calling"
          /\ handle_empty_response(session, llm_response, answers)

SpecSessions == Init /\ [][NextSessions]_vars

\* The deep_tAIpei app: location reports, which also write the location
\* file, beside one stream whose rewriter reads the in-memory record.
NextDeep ==
    \/ \E location \in Locations, written \in BOOLEAN : deep_store_location(location, written)
    \/ next_uuid < 1 /\ prepare_sse_proxy(BodyRun)
    \/ Len(streams) < 1 /\ sse_connect(1)
    \/ \E s \in Streams : GenOpen(s)
    \/ \E s \in Streams, text \in PairTexts :
          Len(streams[s].inp) < MaxPairChunks /\ UpstreamEmit(s, text)
    \/ \E s \in Streams : GenChunk(s, Len(streams[s].upstream_buf))
    \/ \E s \in Streams : GenEnd(s)

SpecDeep == Init /\ [][NextDeep]_vars

\* =================================================================== claims
RECURSIVE Concat(_)
Concat(texts) == IF texts = <<>> THEN <<>> ELSE Head(texts) \o Concat(Tail(texts))

\* the payload a chunk or a frame carries when it is "data: " + a JSON object
HasPayload(text) ==
    /\ StartsWith(text, DataPrefix)
    /\ Loads(SubSeq(text, Len(DataPrefix) + 1, Len(text))).is_dict
PayloadOf(text) == Loads(SubSeq(text, Len(DataPrefix) + 1, Len(text))).value

PartsOf(text) ==
    IF HasPayload(text) /\ HasParts(PayloadOf(text))
    THEN PayloadOf(text)["content"]["parts"]
    ELSE <<>>

StreamsOf(request_id) == {s \in Streams : streams[s].request_id = request_id}

UpstreamConnected(s) == streams[s].status_code # 0

\* C1: for every request id at most one stream is ever opened: a second
\* sse_connect on an id whose stream has been opened is refused, so that at
\* most one generator of the id ever gets an upstream connection.
C1_AtMostOneStreamPerId ==
    \A request_id \in 1..MaxRequests :
        Cardinality({s \in StreamsOf(request_id) : UpstreamConnected(s)}) <= 1

\* C2: when the chunks a cleanly ended stream received are a split of the
\* text of one SSE event into two or more chunks, the client got exactly one
\* frame, the data frame of the (rewritten) payload of that event.
C2_ChunkingTransparent ==
    \A s \in Streams : \A d \in Payloads :
        (/\ streams[s].ended = "completed"
         /\ Len(streams[s].inp) >= 2
         /\ Concat(streams[s].inp) = EventText(d))
        => streams[s].out =
              <<DataFrame(RewriteData(d, Correlator(FALSE, None), USER_LOCATIONS).data)>>

IsSubstituted(part) ==
    /\ Has(part, "functionResponse")
    /\ Has(part["functionResponse"], "response")
    /\ Get(part["functionResponse"]["response"], "source") = "browser"

\* the positions <<i, k>> of the parts carried by a sequence of texts
PartPositions(texts) ==
    UNION {{<<i, k>> : k \in 1..Len(PartsOf(texts[i]))} : i \in 1..Len(texts)}

FrameTexts(g) == [i \in 1..Len(g.out) |-> g.out[i].text]

CallsObserved(g) ==
    Cardinality({ik \in PartPositions(g.inp) : IsGcpCall(PartsOf(g.inp[ik[1]])[ik[2]])})

ResponsesSubstituted(g) ==
    Cardinality({ik \in PartPositions(FrameTexts(g)) :
                    IsSubstituted(PartsOf(g.out[ik[1]].text)[ik[2]])})

\* C3: at most one function-response is substituted per observed
\* get_current_place call: the responses the client received with the browser
\* location in them are never more than the calls the stream has received.
C3_OneSubstitutionPerCall ==
    \A s \in Streams : ResponsesSubstituted(streams[s]) <= CallsObserved(streams[s])

ErrorFrames(g) == {i \in 1..Len(g.out) : g.out[i].site = "error"}

C4_ErrorFrameShape ==
    \A s \in Streams :
        IF streams[s].ended = "error"
        THEN /\ ErrorFrames(streams[s]) = {Len(streams[s].out)}
             /\ streams[s].pc \in {"error_yielded", "closed"}
        ELSE ErrorFrames(streams[s]) = {}

C4_FailureStep ==
    \A s \in Streams :
        LET g == streams[s]
            h == streams'[s]
        IN  /\ (g.ended = "no" /\ h.ended = "error")
                => /\ h.out = Append(g.out, h.out[Len(h.out)])
                   /\ h.pc = "error_yielded"
            /\ g.ended = "error"
                => /\ h.out = g.out
                   /\ h.ended = "error"
                   /\ h.pc \in {g.pc, "closed"}
                   /\ (g.pc = "error_yielded" /\ h.pc = "closed"
                       /\ g.request_id \in DOMAIN SSE_MESSAGES')
                       => SSE_MESSAGES'[g.request_id].status = "error"

\* C4: when the connection fails or the pipeline raises while a stream is
\* open, one error frame is appended to what the client already received, it
\* stays the last frame, the generator's only further step closes it, and
\* that step leaves the request (when it is still stored) in status error.
C4_FailureAppendsOneTerminalErrorFrame ==
    [](C4_ErrorFrameShape) /\ [][C4_FailureStep]_vars

C4_Witness ==
    \E s \in Streams :
        /\ streams[s].pc = "closed"
        /\ streams[s].ended = "error"
        /\ Len(streams[s].out) = 2
        /\ streams[s].out[1].site = "data"
        /\ streams[s].request_id \in DOMAIN SSE_MESSAGES
        /\ SSE_MESSAGES[streams[s].request_id].status = "error"

\* C5: once every generator opened for a request has finished, whichever way
\* its upstream ended, the request (while stored) is completed or error: it
\* is not left in-progress.
C5_OpenedRequestsReachTerminalStatus ==
    \A request_id \in DOMAIN SSE_MESSAGES :
        (/\ StreamsOf(request_id) # {}
         /\ \A s \in StreamsOf(request_id) : streams[s].pc = "closed")
        => SSE_MESSAGES[request_id].status \in {"completed", "error"}

Rank(status) ==
    CASE status = "pending" -> 0
      [] status = "in-progress" -> 1
      [] OTHER -> 2

C6_StatusStep ==
    /\ \A request_id \in DOMAIN SSE_MESSAGES' \ DOMAIN SSE_MESSAGES :
          SSE_MESSAGES'[request_id].status = "pending"
    /\ \A request_id \in DOMAIN SSE_MESSAGES \cap DOMAIN SSE_MESSAGES' :
          LET old == SSE_MESSAGES[request_id].status
              new == SSE_MESSAGES'[request_id].status
          IN  /\ Rank(new) >= Rank(old)
              /\ Rank(old) = 2 => new = old

\* C6: a stored request's status only moves forward along
\* pending -> in-progress -> {completed, error}, and a completed or error
\* status never changes again.
C6_StatusOnlyMovesForward == [][C6_StatusStep]_vars

\* C7: eviction is scheduled regardless of the final status: every stored
\* request that is completed or error has a cleanup task waiting to remove it.
C7_TerminalEntriesAreScheduledForEviction ==
    \A request_id \in DOMAIN SSE_MESSAGES :
        SSE_MESSAGES[request_id].status \in {"completed", "error"}
        => \E s \in StreamsOf(request_id) : streams[s].cleanup = "sleeping"

Evicted(request_id) == \E s \in StreamsOf(request_id) : streams[s].cleanup = "done"

C8_EvictedIsGone ==
    \A request_id \in 1..MaxRequests :
        Evicted(request_id) => request_id \notin DOMAIN SSE_MESSAGES

C8_ConnectAfterEviction ==
    \A request_id \in 1..MaxRequests :
        Evicted(request_id)
        => /\ \A s \in DOMAIN streams' \ DOMAIN streams :
                 streams'[s].request_id # request_id
           /\ (/\ http' # http
               /\ http'.op = "sse_connect"
               /\ http'.arg = [request_id |-> request_id])
              => http'.code = 404

\* C8: after a stream has completed cleanly and the delay of its cleanup task
\* has elapsed, the request id is not in the store, and a connect on that id
\* answers 404 and creates no generator.
C8_EvictedAfterDelay == [](C8_EvictedIsGone) /\ [][C8_ConnectAfterEviction]_vars

C8_Witness ==
    \E s \in Streams :
        /\ streams[s].ended = "completed"
        /\ streams[s].cleanup = "done"
        /\ streams[s].request_id \notin DOMAIN SSE_MESSAGES
        /\ http = Response("sse_connect", [request_id |-> streams[s].request_id], 404)

C9_RejectedStep ==
    (/\ http' # http
     /\ http'.op = "store_location"
     /\ http'.code # 200)
    => USER_LOCATIONS' = USER_LOCATIONS

\* C9: a location report that is answered with an error leaves the Location
\* Store as it was.
C9_RejectedReportLeavesStoreUnchanged == [][C9_RejectedStep]_vars

RECURSIVE LastCall(_)
LastCall(parts) ==
    IF parts = <<>>
    THEN [seen |-> FALSE, id |-> None]
    ELSE IF IsGcpCall(parts[Len(parts)])
    THEN [seen |-> TRUE, id |-> Get(parts[Len(parts)]["functionCall"], "id")]
    ELSE LastCall(SubSeq(parts, 1, Len(parts) - 1))

PartsSeen(texts) == Concat([i \in 1..Len(texts) |-> PartsOf(texts[i])])

MatchedByIdentifier(before, part) ==
    /\ Has(part, "functionResponse")
    /\ Get(part["functionResponse"], "name") = "get_current_place"
    /\ LastCall(before).seen
    /\ LastCall(before).id = Get(part["functionResponse"], "id")

LocationOnRecord ==
    /\ Has(USER_LOCATIONS, "browser")
    /\ Has(USER_LOCATIONS["browser"], "lat")
    /\ Has(USER_LOCATIONS["browser"], "lng")

BrowserResponse(record) ==
    [status |-> "success",
     coordinates |-> [lat |-> record["lat"], lng |-> record["lng"]],
     accuracy |-> IF "accuracy" \in DOMAIN record THEN record["accuracy"] ELSE [num |-> 0],
     source |-> "browser"]

C10_ChunkStep ==
    \A s \in Streams :
        LET g == streams[s]
            h == streams'[s]
            chunk == h.inp[Len(h.inp)]
        IN  (Len(h.inp) = Len(g.inp) + 1 /\ LocationOnRecord)
            => /\ \A k \in 1..Len(PartsOf(chunk)) :
                     MatchedByIdentifier(
                        PartsSeen(g.inp) \o SubSeq(PartsOf(chunk), 1, k - 1),
                        PartsOf(chunk)[k])
                     => /\ Len(h.out) = Len(g.out) + 1
                        /\ h.out[Len(h.out)].site = "data"
                        /\ PartsOf(h.out[Len(h.out)].text)[k]["functionResponse"]["response"]
                              = BrowserResponse(USER_LOCATIONS["browser"])
               /\ h.inp = <<EventText(CallA), EventText(RespA)>>
                     => /\ Len(h.out) = 2
                        /\ PartsOf(h.out[2].text)[1]["functionResponse"]["response"]["coordinates"]
                              = [lat |-> USER_LOCATIONS["browser"]["lat"],
                                 lng |-> USER_LOCATIONS["browser"]["lng"]]

\* C10: a get_current_place function-response whose identifier is that of the
\* most recent get_current_place call of the stream, processed while a browser
\* location (lat and lng) is on record, reaches the client with its response
\* replaced by {status: success, coordinates: the stored lat and lng,
\* accuracy: the stored accuracy or 0, source: browser}; a call followed by
\* its response gives two frames, the second with the stored coordinates.
C10_MatchedResponseCarriesBrowserLocation == [][C10_ChunkStep]_vars

C10_Witness ==
    \E s \in Streams :
        /\ streams[s].inp = <<EventText(CallA), EventText(RespA)>>
        /\ Len(streams[s].out) = 2
        /\ USER_LOCATIONS = [browser |-> LocNoAccuracy]
        /\ PartsOf(streams[s].out[2].text)[1]["functionResponse"]["response"]
              = [status |-> "success",
                 coordinates |-> [lat |-> Num(24), lng |-> Num(120)],
                 accuracy |-> Num(0),
                 source |-> "browser"]

\* the decoded payloads of the chunks that carry one, in order
RECURSIVE PayloadsIn(_)
PayloadsIn(texts) ==
    IF texts = <<>> THEN <<>>
    ELSE IF HasPayload(Head(texts))
    THEN <<PayloadOf(Head(texts))>> \o PayloadsIn(Tail(texts))
    ELSE PayloadsIn(Tail(texts))

NoLocationOnRecord ==
    ~Has(USER_LOCATIONS, "browser") \/ USER_LOCATIONS["browser"] = <<>>

C11_ChunkStep ==
    \A s \in Streams :
        LET g == streams[s]
            h == streams'[s]
            chunk == h.inp[Len(h.inp)]
            frame == h.out[Len(h.out)]
        IN  (Len(h.inp) = Len(g.inp) + 1 /\ NoLocationOnRecord)
            => /\ \A k \in 1..Len(PartsOf(chunk)) :
                     MatchedByIdentifier(
                        PartsSeen(g.inp) \o SubSeq(PartsOf(chunk), 1, k - 1),
                        PartsOf(chunk)[k])
                     => /\ Len(h.out) = Len(g.out) + 1
                        /\ frame.site = "data"
                        /\ PartsOf(frame.text)[k] = PartsOf(chunk)[k]
                        /\ (\A j \in 1..Len(PartsOf(chunk)) :
                                ~IsShowPlaceResponse(PartsOf(chunk)[j]))
                            => PayloadOf(frame.text) = PayloadOf(chunk)
               /\ LET events == PayloadsIn(h.inp)
                      processed == intercept_function_calls(JsonBody(TRUE, events), USER_LOCATIONS)
                  IN  \A i \in 1..Len(events) :
                         \A k \in 1..Len(events[i]["content"]["parts"]) :
                            IsGcpResponse(events[i]["content"]["parts"][k])
                            => /\ processed.raised # "KeyError"
                               /\ processed.raised = None
                                   => processed.value[i]["content"]["parts"][k]
                                         = events[i]["content"]["parts"][k]

\* C11: while no browser location is on record, a get_current_place
\* function-response matched by the identifier of the stream's latest call
\* reaches the client in a data frame whose decoded part equals the upstream
\* part (the whole payload equals the upstream payload when the event holds
\* no show_place_details response): nothing is replaced and no failure is
\* fabricated.  The list rewrite leaves such responses unchanged as well.
C11_NoLocationLeavesResponseUntouched == [][C11_ChunkStep]_vars

C11_Witness ==
    \E s \in Streams :
        /\ streams[s].inp = <<EventText(CallA), EventText(RespA)>>
        /\ USER_LOCATIONS = <<>>
        /\ Len(streams[s].out) = 2
        /\ streams[s].out[2].site = "data"
        /\ PayloadOf(streams[s].out[2].text) = RespA

\* a show_place_details function-response with status success and a
\* non-null location
ShowsPlace(part) ==
    /\ Has(part, "functionResponse")
    /\ Get(part["functionResponse"], "name") = "show_place_details"
    /\ Has(part["functionResponse"], "response")
    /\ Get(part["functionResponse"]["response"], "status") = "success"
    /\ Has(part["functionResponse"]["response"], "location")
    /\ part["functionResponse"]["response"]["location"] # JsonNull

\* the part with ui_action = show_map added to its response, all else kept
WithShowMap(part) ==
    LET response == part["functionResponse"]["response"] IN
    [part EXCEPT !["functionResponse"]["response"] =
        [x \in DOMAIN response \cup {"ui_action"} |->
            IF x = "ui_action" THEN "show_map" ELSE response[x]]]

C12_ChunkStep ==
    \A s \in Streams :
        LET g == streams[s]
            h == streams'[s]
            chunk == h.inp[Len(h.inp)]
            frame == h.out[Len(h.out)]
        IN  Len(h.inp) = Len(g.inp) + 1
            => \A k \in 1..Len(PartsOf(chunk)) :
                  LET part == PartsOf(chunk)[k] IN
                  (Has(part, "functionResponse")
                   /\ Get(part["functionResponse"], "name") = "show_place_details")
                  => /\ h.ended # "error"
                     /\ Len(h.out) = Len(g.out) + 1
                     /\ frame.site = "data"
                     /\ PartsOf(frame.text)[k] =
                           IF ShowsPlace(part) THEN WithShowMap(part) ELSE part

\* C12: every show_place_details function-response a stream receives is
\* emitted in a data frame, without an error: with ui_action = show_map added
\* and every other field unchanged when its status is success and its
\* location is non-null, and equal to the input otherwise.
C12_ShowPlaceDetailsAugmented == [][C12_ChunkStep]_vars

C13_ChunkStep ==
    \A s \in Streams :
        LET g == streams[s]
            h == streams'[s]
            chunk == h.inp[Len(h.inp)]
        IN  Len(h.inp) = Len(g.inp) + 1
            => \A k \in 1..Len(PartsOf(chunk)) :
                  LET part == PartsOf(chunk)[k]
                      before == PartsSeen(g.inp) \o SubSeq(PartsOf(chunk), 1, k - 1)
                  IN  (/\ ShowsPlace(part)
                       /\ IsDict(part["functionResponse"]["response"]["location"])
                       /\ LastCall(before).seen)
                      => /\ Len(h.out) = Len(g.out) + 1
                         /\ PartsOf(h.out[Len(h.out)].text)[k] = WithShowMap(part)

\* C13: a show_place_details function-response with status success and a
\* location object, processed while a get_current_place call is armed, is
\* emitted with ui_action = show_map added, whatever identifier it carries
\* or lacks.
C13_AugmentedWhileArmed == [][C13_ChunkStep]_vars

\* the identifiers of the get_current_place calls among parts, in order
RECURSIVE CallIds(_)
CallIds(parts) ==
    IF parts = <<>> THEN <<>>
    ELSE IF IsGcpCall(Head(parts))
    THEN <<Get(Head(parts)["functionCall"], "id")>> \o CallIds(Tail(parts))
    ELSE CallIds(Tail(parts))

C14_ChunkStep ==
    \A s \in Streams :
        LET g == streams[s]
            h == streams'[s]
            chunk == h.inp[Len(h.inp)]
            frame == h.out[Len(h.out)]
        IN  Len(h.inp) = Len(g.inp) + 1
            => \A k \in 1..Len(PartsOf(chunk)) :
                  LET part == PartsOf(chunk)[k]
                      ids == CallIds(PartsSeen(g.inp) \o SubSeq(PartsOf(chunk), 1, k - 1))
                  IN  (/\ Len(ids) >= 2
                       /\ Has(part, "functionResponse")
                       /\ Get(part["functionResponse"], "name") = "get_current_place"
                       /\ \E n \in 1..Len(ids) : ids[n] = Get(part["functionResponse"], "id"))
                      => /\ Len(h.out) = Len(g.out) + 1
                         /\ frame.site = "data"
                         /\ PartsOf(frame.text)[k] =
                               IF /\ Get(part["functionResponse"], "id") = ids[Len(ids)]
                                  /\ LocationOnRecord
                               THEN [part EXCEPT !["functionResponse"]["response"] =
                                        BrowserResponse(USER_LOCATIONS["browser"])]
                               ELSE part

\* C14: only the most recent get_current_place call is tracked: once a
\* stream has carried two calls or more, a get_current_place response with the
\* identifier of an older call is emitted equal to the upstream part, and one
\* with the identifier of the latest call is emitted with the browser
\* location on record in place of its response.
C14_OnlyLatestCallTracked == [][C14_ChunkStep]_vars

C14_Witness ==
    \E s \in Streams :
        /\ streams[s].inp = <<EventText(CallA), EventText(CallB), EventText(RespA)>>
        /\ USER_LOCATIONS = [browser |-> LocFull]
        /\ Len(streams[s].out) = 3
        /\ PayloadOf(streams[s].out[3].text) = RespA

\* b is a with nothing changed but the key k
SameButKey(a, b, k) ==
    /\ DOMAIN a = DOMAIN b
    /\ \A x \in DOMAIN a \ {k} : a[x] = b[x]

\* part b is part a with nothing changed but, when a is a function-response,
\* its response object
SameButResponse(a, b) ==
    IF Has(a, "functionResponse")
    THEN /\ SameButKey(a, b, "functionResponse")
         /\ SameButKey(a["functionResponse"], b["functionResponse"], "response")
    ELSE a = b

\* event b is event a with nothing changed but the response objects of its
\* function-response parts
OnlyResponsesChanged(a, b) ==
    IF HasParts(a)
    THEN /\ SameButKey(a, b, "content")
         /\ SameButKey(a["content"], b["content"], "parts")
         /\ Len(a["content"]["parts"]) = Len(b["content"]["parts"])
         /\ \A k \in 1..Len(a["content"]["parts"]) :
               SameButResponse(a["content"]["parts"][k], b["content"]["parts"][k])
         /\ (\A k \in 1..Len(a["content"]["parts"]) :
                ~Has(a["content"]["parts"][k], "functionResponse"))
             => a = b
    ELSE a = b

C15_ChunkStep ==
    \A s \in Streams :
        LET g == streams[s]
            h == streams'[s]
            chunk == h.inp[Len(h.inp)]
            frame == h.out[Len(h.out)]
        IN  (Len(h.inp) = Len(g.inp) + 1 /\ HasPayload(chunk))
            => /\ h.ended = "no"
                  => /\ Len(h.out) = Len(g.out) + 1
                     /\ frame.site = "data"
                     /\ OnlyResponsesChanged(PayloadOf(chunk), PayloadOf(frame.text))
               /\ LET events == <<PayloadOf(chunk)>>
                      processed == intercept_function_calls(JsonBody(TRUE, events), USER_LOCATIONS)
                  IN  processed.raised = None
                      => /\ Len(processed.value) = Len(events)
                         /\ \A i \in 1..Len(events) :
                               OnlyResponsesChanged(events[i], processed.value[i])

C16_ListRewriteEqualsStreamRewrite ==
    \A s \in Streams :
        LET g == streams[s]
            events == PayloadsIn(g.inp)
            processed == intercept_function_calls(JsonBody(TRUE, events), USER_LOCATIONS)
        IN  (/\ g.ended # "error"
             /\ \A i \in 1..Len(g.inp) : HasPayload(g.inp[i]))
            => /\ processed.raised = None
               /\ Len(g.out) = Len(events)
               /\ processed.value = [i \in 1..Len(g.out) |-> PayloadOf(g.out[i].text)]

C17_RunStep ==
    (http'.op = "run" /\ http'.arg.upstream.kind = "response")
    => LET body == http'.arg.upstream.body
           once == intercept_function_calls(body, USER_LOCATIONS)
           twice == intercept_function_calls(JsonBody(body.is_list, once.value), USER_LOCATIONS)
       IN  once.raised = None
           => /\ http'.arg.content = JsonBody(body.is_list, once.value)
              /\ twice.raised = None
              /\ twice.value = once.value

\* C17: the rewrite pass is idempotent: the body /proxy/run answers is the
\* rewrite of the upstream body, and rewriting that answer again under the
\* same Location Store gives the same answer.
C17_RewriteIdempotent == [][C17_RunStep]_vars

C17_Witness ==
    /\ http.op = "run"
    /\ http.code = 200
    /\ USER_LOCATIONS = [browser |-> LocFull]
    /\ http.arg.upstream.kind = "response"
    /\ http.arg.upstream.body = JsonBody(TRUE, <<RespA, ShowC>>)
    /\ http.arg.content.value[1]["content"]["parts"][1]["functionResponse"]["response"]
          = [status |-> "success", coordinates |-> [lat |-> Num(25), lng |-> Num(121)],
             accuracy |-> Num(10), source |-> "browser"]
    /\ http.arg.content.value[2]["content"]["parts"][1]["functionResponse"]["response"]
          = [status |-> "success", location |-> [lat |-> Num(25), lng |-> Num(121)],
             name |-> "Taipei 101", ui_action |-> "show_map"]
    /\ intercept_function_calls(http.arg.content, USER_LOCATIONS).value = http.arg.content.value

\* C18: one upstream chunk that holds several complete SSE events gives one
\* frame per event: a stream whose only chunk is the text of a
\* get_current_place call event followed by the text of its response event
\* has emitted two data frames, the call and the response (with the browser
\* location when one is on record).
C18_EventsOfOneChunkEmittedSeparately ==
    \A s \in Streams :
        LET g == streams[s] IN
        g.inp = <<EventText(CallA) \o EventText(RespA)>>
        => /\ Len(g.out) = 2
           /\ g.out[1].site = "data"
           /\ g.out[2].site = "data"
           /\ PayloadOf(g.out[1].text) = CallA
           /\ PartsOf(g.out[2].text)[1]["functionResponse"]["response"] =
                 IF LocationOnRecord
                 THEN BrowserResponse(USER_LOCATIONS["browser"])
                 ELSE UpstreamFailure

\* the text ends with one blank-line terminator and no further newline
\* before it
EndsWithOneTerminator(text) ==
    /\ Len(text) >= 2
    /\ text[Len(text)] = NL
    /\ text[Len(text) - 1] = NL
    /\ Len(text) >= 3 => text[Len(text) - 2] # NL

\* C19: every frame a stream has emitted, whichever statement yielded it,
\* ends with exactly one blank-line terminator.
C19_FramesEndWithOneTerminator ==
    \A s \in Streams :
        \A i \in 1..Len(streams[s].out) : EndsWithOneTerminator(streams[s].out[i].text)

\* a data chunk whose payload is neither a JSON object nor the JSON list
InvalidJsonData(chunk) ==
    /\ StartsWith(chunk, DataPrefix)
    /\ LET payload == Strip(SubSeq(chunk, Len(DataPrefix) + 1, Len(chunk))) IN
       /\ payload # <<>>
       /\ payload # <<Ch("["), Ch("]")>>
       /\ ~(Len(payload) = 3 /\ payload[1] = Ch("{") /\ "json" \in DOMAIN payload[2]
            /\ payload[3] = Ch("}"))

C20_ChunkStep ==
    \A s \in Streams :
        LET g == streams[s]
            h == streams'[s]
            chunk == h.inp[Len(h.inp)]
        IN  Len(h.inp) = Len(g.inp) + 1
            => /\ InvalidJsonData(chunk)
                  => /\ Len(h.out) = Len(g.out) + 1
                     /\ SubSeq(h.out, 1, Len(g.out)) = g.out
                     /\ h.out[Len(h.out)].site = "raw"
                     /\ StartsWith(h.out[Len(h.out)].text, chunk)
                     /\ h.cor = g.cor
                     /\ h.pc = "streaming"
                     /\ h.ended = "no"
                     /\ SSE_MESSAGES' = SSE_MESSAGES
               /\ (/\ h.inp = <<NotJsonText, EventText(CallA), EventText(RespA)>>
                   /\ LocationOnRecord)
                  => /\ Len(h.out) = 3
                     /\ PartsOf(h.out[3].text)[1]["functionResponse"]["response"]
                           = BrowserResponse(USER_LOCATIONS["browser"])

\* C20: a data chunk whose payload is not valid JSON is forwarded as one
\* frame that carries its original text; no error frame is emitted, the
\* correlator state and the request status do not change, the stream stays
\* open, and the events that follow are still decoded and rewritten.
C20_InvalidJsonForwarded == [][C20_ChunkStep]_vars

C20_Witness ==
    \E s \in Streams :
        /\ streams[s].inp = <<NotJsonText, EventText(CallA), EventText(RespA)>>
        /\ USER_LOCATIONS = [browser |-> LocFull]
        /\ Len(streams[s].out) = 3
        /\ streams[s].out[1].site = "raw"
        /\ SubSeq(streams[s].out[1].text, 1, Len(NotJsonText)) = NotJsonText
        /\ IsSubstituted(PartsOf(streams[s].out[3].text)[1])
        /\ SSE_MESSAGES[1].status = "in-progress"

IsNonBlank(text) == \E i \in 1..Len(text) : text[i] \notin {NL, SP}

\* frame is what the client gets for chunk: the chunk's own text passed
\* through, or the data frame of the chunk's payload with nothing changed but
\* the responses of function-response parts
FrameOfChunk(chunk, frame) ==
    \/ /\ frame.site = "raw"
       /\ StartsWith(frame.text, chunk)
    \/ /\ frame.site = "data"
       /\ HasPayload(chunk)
       /\ HasPayload(frame.text)
       /\ OnlyResponsesChanged(PayloadOf(chunk), PayloadOf(frame.text))

\* C21: on a stream that ended cleanly the client has received exactly one
\* frame per non-blank chunk delivered by the upstream, the i-th frame being
\* the frame of the i-th non-blank chunk; blank chunks gave no frame.
C21_OneFramePerNonBlankChunkInOrder ==
    \A s \in Streams :
        LET g == streams[s]
            chunks == SelectSeq(g.inp, IsNonBlank)
        IN  g.ended = "completed"
            => /\ Len(g.out) = Len(chunks)
               /\ \A i \in 1..Len(chunks) : FrameOfChunk(chunks[i], g.out[i])

C21_Witness ==
    \E s \in Streams :
        /\ streams[s].ended = "completed"
        /\ streams[s].inp = <<BlankText, EventText(SayHi)>>
        /\ Len(streams[s].out) = 1
        /\ streams[s].out[1].site = "data"
        /\ PayloadOf(streams[s].out[1].text) = SayHi

C22_NonSuccessStep ==
    \A s \in Streams :
        streams[s].ended = "non_success" => streams'[s] = streams[s]

\* C22: a stream whose upstream answered with a non-success status has read
\* no chunk and has given the client exactly one frame, "data: " followed by
\* the upstream's error body and the terminator; the generator is closed and
\* takes no further step, so no frame follows.
C22_NonSuccessGivesOneErrorBodyFrame ==
    /\ [](\A s \in Streams :
            streams[s].ended = "non_success"
            => /\ streams[s].out =
                     <<[text |-> DataPrefix \o ErrorBody \o <<NL, NL>>,
                        site |-> "upstream_error"]>>
               /\ streams[s].inp = <<>>
               /\ streams[s].status_code # 200
               /\ streams[s].pc = "closed")
    /\ [][C22_NonSuccessStep]_vars

C22_Witness ==
    \E s \in Streams :
        /\ streams[s].ended = "non_success"
        /\ Len(streams[s].out) = 1
        /\ streams[s].pc = "closed"
        /\ SSE_MESSAGES[streams[s].request_id].status = "in-progress"

C23_ConnectStep ==
    \A request_id \in 1..MaxRequests :
        request_id \notin DOMAIN SSE_MESSAGES
        => /\ \A s \in DOMAIN streams' \ DOMAIN streams :
                 streams'[s].request_id # request_id
           /\ (/\ http'.op = "sse_connect"
               /\ http'.arg = [request_id |-> request_id]
               /\ http' # http)
              => /\ http'.code = 404
                 /\ SSE_MESSAGES' = SSE_MESSAGES
                 /\ streams' = streams

\* C23: while an id is not in SSE_MESSAGES (never prepared, or evicted) no
\* generator is created for it, and a connect on it is answered 404 with
\* SSE_MESSAGES and every generator left as they were.
C23_UnknownIdNotFound == [][C23_ConnectStep]_vars

C23_Witness ==
    /\ http = [op |-> "sse_connect", arg |-> [request_id |-> 1], code |-> 404]
    /\ SSE_MESSAGES = <<>>
    /\ streams = <<>>
    /\ next_uuid = 0

\* the ids that are or have been in use: stored, or carried by a generator
IdsInUse == DOMAIN SSE_MESSAGES \cup {streams[s].request_id : s \in Streams}

\* the payload stored for a body: the body with "streaming" set to true
Forced(value) ==
    [x \in DOMAIN value \cup {"streaming"} |-> IF x = "streaming" THEN TRUE ELSE value[x]]

C24_PrepareStep ==
    (http' # http /\ http'.op = "prepare_sse" /\ http'.code = 200)
    => LET request_id == http'.arg.request_id IN
       /\ request_id \notin IdsInUse
       /\ DOMAIN SSE_MESSAGES' = DOMAIN SSE_MESSAGES \cup {request_id}
       /\ SSE_MESSAGES'[request_id].status = "pending"
       /\ "streaming" \in DOMAIN SSE_MESSAGES'[request_id].data
       /\ SSE_MESSAGES'[request_id].data["streaming"] = TRUE
       /\ \E body \in PrepareBodies :
             /\ body.kind = "object"
             /\ SSE_MESSAGES'[request_id].data = Forced(body.value)
       /\ \A other \in DOMAIN SSE_MESSAGES : SSE_MESSAGES'[other] = SSE_MESSAGES[other]
       /\ streams' = streams

\* C24: a prepare request answered with an id has added exactly one entry to
\* SSE_MESSAGES, under that id, which was neither stored nor carried by any
\* generator before; the entry is pending and its payload is a sent body
\* with "streaming" true whatever the body said; every other entry and every
\* generator is unchanged.
C24_PrepareRegistersOnePendingEntry == [][C24_PrepareStep]_vars

C24_Witness ==
    /\ http = [op |-> "prepare_sse", arg |-> [request_id |-> 2], code |-> 200]
    /\ 1 \notin DOMAIN SSE_MESSAGES
    /\ \E s \in Streams : streams[s].request_id = 1 /\ streams[s].cleanup = "done"
    /\ SSE_MESSAGES[2] = [data |-> [app_name |-> "a", streaming |-> TRUE], status |-> "pending"]

C25_PrepareStep ==
    (http' # http /\ http'.op = "prepare_sse")
    => IF "kind" \in DOMAIN http'.arg
       THEN /\ http'.arg.kind # "object"
            /\ http'.code = 500
            /\ SSE_MESSAGES' = SSE_MESSAGES
            /\ next_uuid' = next_uuid
       ELSE http'.code = 200

\* C25: a prepare request whose body is not a JSON object (a JSON array, or
\* text that is not JSON) is answered with an error status and leaves
\* SSE_MESSAGES as it was; only object bodies are answered with an id.
C25_InvalidPrepareLeavesStoreUnchanged == [][C25_PrepareStep]_vars

C25_Witness ==
    /\ http = [op |-> "prepare_sse", arg |-> BodyArray, code |-> 500]
    /\ DOMAIN SSE_MESSAGES = {1}
    /\ SSE_MESSAGES[1].status = "pending"
    /\ next_uuid = 1

\* a report with numeric lat and lng
ValidReport(r) ==
    /\ "lat" \in DOMAIN r /\ "num" \in DOMAIN r["lat"]
    /\ "lng" \in DOMAIN r /\ "num" \in DOMAIN r["lng"]

C26_StoreStep ==
    /\ (http' # http /\ http'.op = "store_location" /\ ValidReport(http'.arg))
       => /\ http'.code = 200
          /\ "browser" \in DOMAIN USER_LOCATIONS'
          /\ USER_LOCATIONS'["browser"] = http'.arg
    /\ (USER_LOCATIONS = <<>> /\ USER_LOCATIONS' # <<>>)
       => /\ http'.op = "store_location"
          /\ USER_LOCATIONS' = [browser |-> http'.arg]

\* C26: the Location Store starts without a browser record and stays without
\* one until a report is stored (no default record appears); right after a
\* report with numeric lat and lng has been stored, the browser key holds
\* exactly that report.
C26_LocationRoundTrip == (USER_LOCATIONS = <<>>) /\ [][C26_StoreStep]_vars

C26_Witness ==
    /\ http = [op |-> "store_location", arg |-> LocNoAccuracy, code |-> 200]
    /\ USER_LOCATIONS = [browser |-> [lat |-> Num(24), lng |-> Num(120)]]
    /\ \E s \in Streams : streams[s].pc = "streaming"

\* the responses the client received with the browser location in them
SubstitutedIn(text) ==
    {PartsOf(text)[k]["functionResponse"]["response"] :
        k \in {j \in 1..Len(PartsOf(text)) : IsSubstituted(PartsOf(text)[j])}}

SubstitutedResponses ==
    UNION {UNION {SubstitutedIn(streams[s].out[i].text) : i \in 1..Len(streams[s].out)} :
           s \in Streams}

\* C27: location reports arriving while streams run never mix: every
\* substituted response a client received is the response built from one
\* whole report (its lat, its lng, its accuracy or 0), and when the last
\* completed request is a location report the store holds exactly that
\* report.
C27_ReportsAtomicLastWins ==
    /\ \A response \in SubstitutedResponses :
          \E r \in Locations :
             /\ "lat" \in DOMAIN r /\ "lng" \in DOMAIN r
             /\ response = BrowserResponse(r)
    /\ http.op = "store_location" => USER_LOCATIONS = [browser |-> http.arg]

C27_Witness ==
    \E s \in Streams :
        /\ streams[s].pc = "streaming"
        /\ streams[s].inp = <<EventText(CallThenRespA)>>
        /\ PartsOf(streams[s].out[1].text)[2]["functionResponse"]["response"]
              = BrowserResponse(LocFull)
        /\ http = [op |-> "store_location", arg |-> LocNoAccuracy, code |-> 200]
        /\ USER_LOCATIONS = [browser |-> LocNoAccuracy]

C28_GoneStep ==
    \A s \in Streams :
        LET g == streams[s]
            h == streams'[s]
        IN  g.request_id \notin DOMAIN SSE_MESSAGES
            => /\ g.request_id \notin DOMAIN SSE_MESSAGES'
               /\ (g.pc \in {"streaming", "error_yielded"} /\ h.pc = "closed")
                  => /\ SSE_MESSAGES' = SSE_MESSAGES
                     /\ h.out = g.out
                     /\ h.ended = IF g.pc = "streaming" THEN "completed" ELSE "error"
               /\ (g.cleanup = "sleeping" /\ h.cleanup = "done")
                  => /\ SSE_MESSAGES' = SSE_MESSAGES
                     /\ h.pc = g.pc
                     /\ h.out = g.out

\* C28: once the entry of a generator's request id is gone, it is never
\* stored again; the generator's final status update (completed or error)
\* and a second eviction of the id change nothing in SSE_MESSAGES, and the
\* generator finishes the way it would have (no frame is added, no failure is
\* recorded because the entry was missing).
C28_OperationsTolerateEviction == [][C28_GoneStep]_vars

C28_Witness ==
    \E s \in Streams : \E t \in Streams :
        /\ s # t
        /\ streams[s].request_id = streams[t].request_id
        /\ streams[s].request_id \notin DOMAIN SSE_MESSAGES
        /\ streams[t].cleanup = "done"
        /\ streams[s].pc = "closed"
        /\ streams[s].ended = "completed"
        /\ streams[s].cleanup = "none"

C29_ChunkStep ==
    \A s \in Streams :
        LET g == streams[s]
            h == streams'[s]
            chunk == h.inp[Len(h.inp)]
        IN  (Len(h.inp) = Len(g.inp) + 1 /\ IsNonBlank(chunk) /\ h.ended = "no")
            => /\ Len(h.out) = Len(g.out) + 1
               /\ SubSeq(h.out, 1, Len(g.out)) = g.out
               /\ FrameOfChunk(chunk, h.out[Len(h.out)])

\* C29: streaming is incremental: the step that reads a non-blank chunk hands
\* its frame to the client, so while a stream is open and its upstream has
\* not finished the client already has one frame for every non-blank chunk
\* read so far; nothing read is held back until the end.
C29_FramesHandedOverAsRead ==
    /\ [](\A s \in Streams :
            streams[s].pc = "streaming"
            => Len(streams[s].out) = Len(SelectSeq(streams[s].inp, IsNonBlank)))
    /\ [][C29_ChunkStep]_vars

C29_Witness ==
    \E s \in Streams :
        /\ streams[s].pc = "streaming"
        /\ streams[s].inp = <<EventText(CallA)>>
        /\ Len(streams[s].out) = 1
        /\ PayloadOf(streams[s].out[1].text) = CallA
        /\ streams[s].upstream_buf = EventText(RespA)

C30_AfterDisconnectStep ==
    \A s \in Streams :
        LET g == streams[s]
            h == streams'[s]
        IN  g.ended = "cancelled"
            => /\ h.inp = g.inp
               /\ h.upstream_buf = g.upstream_buf
               /\ h.out = g.out
               /\ h.pc = "closed"

C31_ProxyStep ==
    (http' # http /\ http'.op \in {"run", "session"})
    => LET upstream == http'.arg.upstream
           content == http'.arg.content
       IN  /\ upstream.kind = "timeout"
              => http'.code = 504 /\ DOMAIN content.value = {"detail"}
           /\ upstream.kind = "failure"
              => http'.code = 500 /\ DOMAIN content.value = {"detail"}
           /\ upstream.kind = "response"
              => /\ http'.code = upstream.status_code
                 /\ http'.op = "session" => content = upstream.body
                 /\ (http'.op = "run" /\ ~upstream.body.is_list) => content = upstream.body
                 /\ (http'.op = "run" /\ upstream.body.is_list)
                    => LET processed == intercept_function_calls(upstream.body, USER_LOCATIONS)
                       IN  /\ processed.raised = None
                           /\ content = JsonBody(TRUE, processed.value)

\* C31: on the session and run endpoints an upstream timeout is answered 504
\* and any other failure 500, each with a detail message; when the upstream
\* answers, the client gets the upstream's status code, and on the run
\* endpoint the list rewrite of the upstream body (a body that is not a list
\* unchanged).
C31_ProxyErrorsAndPassThrough == [][C31_ProxyStep]_vars

\* C32: the correlator state belongs to one stream: a function-response
\* reaches the client of a stream substituted only when that stream itself
\* received a get_current_place call with its identifier before it, whatever
\* the streams running beside it have received; a stream that received no
\* call forwards its events as they are.
C32_CorrelatorIsPerStream ==
    \A s \in Streams :
        LET g == streams[s] IN
        /\ Len(g.out) = Len(g.inp)
        /\ \A i \in 1..Len(g.out) : \A k \in 1..Len(PartsOf(g.inp[i])) :
              /\ Len(PartsOf(g.out[i].text)) = Len(PartsOf(g.inp[i]))
              /\ IsSubstituted(PartsOf(g.out[i].text)[k])
                 => MatchedByIdentifier(
                       PartsSeen(SubSeq(g.inp, 1, i - 1)) \o SubSeq(PartsOf(g.inp[i]), 1, k - 1),
                       PartsOf(g.inp[i])[k])
        /\ (\A i \in 1..Len(g.inp) : g.inp[i] # EventText(CallA))
           => \A i \in 1..Len(g.out) : PayloadOf(g.out[i].text) = PayloadOf(g.inp[i])

C32_Witness ==
    \E s, t \in Streams :
        /\ s # t
        /\ USER_LOCATIONS = [browser |-> LocFull]
        /\ streams[s].pc = "streaming"
        /\ streams[t].pc = "streaming"
        /\ streams[s].inp = <<EventText(CallA)>>
        /\ streams[s].cor = Correlator(TRUE, "A")
        /\ streams[t].inp = <<EventText(RespA)>>
        /\ Len(streams[t].out) = 1
        /\ PayloadOf(streams[t].out[1].text) = RespA
        /\ streams[t].cor = Correlator(FALSE, None)

C33_ChunkStep ==
    \A s \in Streams :
        LET g == streams[s]
            h == streams'[s]
            chunk == h.inp[Len(h.inp)]
            frame == h.out[Len(h.out)]
        IN  (/\ Len(h.inp) = Len(g.inp) + 1
             /\ Len(h.out) = Len(g.out) + 1
             /\ frame.site = "data")
            => \A k \in 1..Len(PartsOf(frame.text)) :
                  (/\ IsSubstituted(PartsOf(frame.text)[k])
                   /\ k <= Len(PartsOf(chunk))
                   /\ ~IsSubstituted(PartsOf(chunk)[k]))
                  => /\ LocationOnRecord
                     /\ PartsOf(frame.text)[k]["functionResponse"]["response"]
                           = BrowserResponse(USER_LOCATIONS["browser"])

\* C33: a response substituted while a chunk is processed carries the
\* browser record the Location Store holds at that step, not an earlier one:
\* after a report has completed mid-stream, every substitution of the stream
\* carries the reported location.
C33_SubstitutionUsesLocationAtProcessingTime == [][C33_ChunkStep]_vars

C33_Witness ==
    \E s \in Streams :
        /\ streams[s].inp = <<EventText(CallThenRespA), EventText(CallThenRespA)>>
        /\ Len(streams[s].out) = 2
        /\ USER_LOCATIONS = [browser |-> LocNoAccuracy]
        /\ PartsOf(streams[s].out[1].text)[2]["functionResponse"]["response"]
              = BrowserResponse(LocFull)
        /\ PartsOf(streams[s].out[2].text)[2]["functionResponse"]["response"]
              = BrowserResponse(LocNoAccuracy)

C34_ChunkStep ==
    \A s \in Streams :
        LET g == streams[s]
            h == streams'[s]
            chunk == h.inp[Len(h.inp)]
            frame == h.out[Len(h.out)]
        IN  (/\ Len(h.inp) = Len(g.inp) + 1
             /\ Len(h.out) = Len(g.out) + 1
             /\ frame.site = "data")
            => \A k \in 1..Len(PartsOf(chunk)) :
                  LET part == PartsOf(chunk)[k] IN
                  (IsSubstituted(PartsOf(frame.text)[k]) /\ ~IsSubstituted(part))
                  => /\ Get(part["functionResponse"], "name") = "get_current_place"
                     /\ Get(part["functionResponse"], "id") # None

\* C34: a stream replaces a function-response by the browser location only
\* if it is a get_current_place response carrying an identifier: a response
\* of another function, or one without identifier, is never substituted.
C34_OnlyGetCurrentPlaceResponsesSubstituted == [][C34_ChunkStep]_vars

\* C35: every record the Location Store holds under the browser key has
\* both lat and lng, and no stream has ended with the error frame of a
\* KeyError raised by the substitution reading the record.
C35_StoredRecordsHaveLatAndLng ==
    /\ Has(USER_LOCATIONS, "browser")
       => /\ Has(USER_LOCATIONS["browser"], "lat")
          /\ Has(USER_LOCATIONS["browser"], "lng")
    /\ \A s \in Streams : \A i \in 1..Len(streams[s].out) :
          streams[s].out[i] # ErrorFrame("KeyError")

C36_EvictionStep ==
    \A request_id \in DOMAIN SSE_MESSAGES :
        request_id \notin DOMAIN SSE_MESSAGES'
        => /\ SSE_MESSAGES[request_id].status # "in-progress"
           /\ \A s \in StreamsOf(request_id) : streams[s].pc = "closed"

\* C36: an entry of the Pending-Request Store is removed only when its
\* status is not in-progress and every stream of its id has finished.
C36_NeverEvictedWhileInProgress == [][C36_EvictionStep]_vars

\* the callback has just returned for this session
Returned(session) ==
    invocations[session].pc # "done" /\ invocations'[session].pc = "done"

\* the response has a part with a function call or a non-blank text
Usable(response) ==
    /\ response.kind = "content"
    /\ \E k \in 1..Len(response.parts) :
          \/ response.parts[k].function_call # None
          \/ \E t \in 1..Len(response.parts[k].text) : ~IsSpace(response.parts[k].text[t])

C37_RetryStep ==
    \A session \in Sessions :
        LET h == invocations'[session]
            n == Len(h.retries)
        IN  (/\ Returned(session)
             /\ ~Usable(h.llm_response)
             /\ Has(STORED_REQUESTS, agent_name))
            => /\ n \in 1..3
               /\ Len(h.sent) = n
               /\ \A k \in 1..(n - 1) : ~Usable(h.retries[k])
               /\ IF Usable(h.retries[n])
                     THEN h.result = LlmResponse("content", h.retries[n].parts)
                     ELSE n = 3 /\ h.result = TroubleProviding

\* C37: on an empty model response with a request stored, the callback
\* returns after 1 to 3 retry calls: every call before the last gave an
\* empty or failing answer; when the last call gave an answer with a function
\* call or non-blank text, that answer is returned; otherwise 3 calls were
\* made and the fallback message is returned.
C37_AtMostThreeRetriesThenFallback == [][C37_RetryStep]_vars

C37_Witness ==
    /\ invocations[1].pc = "done"
    /\ invocations[1].llm_response = LlmResponse("content", <<ModelBlank>>)
    /\ invocations[1].retries =
          <<LlmResponse("raises", <<>>), LlmResponse("content", <<ModelBlank>>),
            LlmResponse("content", <<ModelOther, ModelCall>>)>>
    /\ invocations[1].result = LlmResponse("content", <<ModelOther, ModelCall>>)

C38_CallbackStep ==
    \A session \in Sessions :
        LET h == invocations'[session]
            usable == Usable(h.llm_response)
        IN  Returned(session)
            => /\ h.sent # <<>> => (~usable /\ Has(STORED_REQUESTS, agent_name))
               /\ usable => (h.result = ReturnNone /\ h.sent = <<>>)
               /\ (~usable /\ ~Has(STORED_REQUESTS, agent_name))
                  => (h.result = TroubleProcessing /\ h.sent = <<>>)

\* C38: the callback makes a model call only when the response has no part
\* with a function call or non-blank text and a request is stored; on a
\* response with such a part it returns None without a model call, and on an
\* empty response with no request stored it returns the fallback message
\* without a model call.
C38_RetryOnlyWhenEmptyAndStored == [][C38_CallbackStep]_vars

C38_Witness ==
    /\ invocations[1].pc = "done"
    /\ STORED_REQUESTS = <<>>
    /\ invocations[1].llm_response = LlmResponse("content", <<ModelOther, ModelBlank>>)
    /\ invocations[1].result = TroubleProcessing
    /\ invocations[1].sent = <<>>

C39_RetryStep ==
    \A session \in Sessions :
        (Returned(session) /\ invocations[session].pc = "calling")
        => \A k \in 1..Len(invocations'[session].sent) :
              invocations'[session].sent[k] = invocations[session].llm_request

\* C39: every request the callback re-sends for an invocation is the request
\* store_request stored for that invocation, also when invocations of other
\* sessions run between its store_request and its handle_empty_response.
C39_RetryResendsOwnRequest == [][C39_RetryStep]_vars

C40_StoreStep ==
    (/\ http'.op = "store_location"
     /\ <<USER_LOCATIONS, LOCATION_FILE, http>>' # <<USER_LOCATIONS, LOCATION_FILE, http>>)
    => /\ LOCATION_FILE' = FileWith(USER_LOCATIONS'["browser"])
       /\ http'.code = 200
          => /\ USER_LOCATIONS'["browser"] = http'.arg
             /\ LOCATION_FILE' = FileWith(http'.arg)
       /\ http'.code # 200
          => /\ USER_LOCATIONS' = USER_LOCATIONS
             /\ LOCATION_FILE' = LOCATION_FILE

\* C40: after every store_location call of the deep_tAIpei app the location
\* file and the in-memory browser record hold the same record: a call
\* answered with success has written the report to both, a call answered
\* with an error has changed neither.
C40_FileAndMemoryAgree == [][C40_StoreStep]_vars

====
